---------------------------- MODULE Spec2Model ----------------------------
(***************************************************************************)
(* A model of the sync-clip network layer:                                 *)
(*   src/src/platforms/network.py            UDPClipboardNetwork           *)
(*   src/src/platforms/websocket_network.py  WebSocketClipboardNetwork     *)
(*   src/src/platforms/device_discovery.py   WebSocketDeviceDiscovery      *)
(*   src/src/core/clipboard_manager.py       ClipboardManager              *)
(*                                                                         *)
(* Python values are modelled as follows.  A str that the code only        *)
(* compares or formats (packet_type, sender_name, sender_ip, device_name)  *)
(* is a TLA+ string and an f-string is a concatenation with \o.  A value   *)
(* whose Python type matters (packet.data, the clipboard content) is a     *)
(* tagged record [t |-> type, v |-> value]: a str content is a sequence of *)
(* one-character strings, a bytes content a sequence of 0..255.            *)
(***************************************************************************)
EXTENDS Integers, Sequences, FiniteSets, Bags, TLC

\* ------------------------------------------------------------------ bounds
\* How often one and the same tracked clipboard message may reach the callback
\* before the environment stops sending it.
MaxDeliver == 2
\* How many eviction passes of the dedup set a behaviour holds.
MaxEvictions == 1
\* The longest text and the longest image content handed to the codec.
MaxTextLen == 2
MaxBytesLen == 4
\* How many broadcasts may wait on a node's event loop.
MaxTasks == 1
\* How many local captures a node of the two-node network makes.
MaxCaptures == 2

\* ------------------------------------------------------- program constants
\* self._device_timeout
DeviceTimeout == 15
\* if len(self._processed_clipboard_data) > 100
DedupCap == 100
\* old_entries = list(self._processed_clipboard_data)[:50]
EvictCount == 50
\* hash(str(clipboard_data.content)[:100])
HashPrefixLen == 100
\* ClipboardManager.__init__(max_history=5)
MaxHistoryDefault == 5

\* ---------------------------------------------------------- Python values
None == [t |-> "None", v |-> <<>>]
PyStr(s) == [t |-> "str", v |-> s]
PyBytes(b) == [t |-> "bytes", v |-> b]
PyDict(f) == [t |-> "dict", v |-> f]
\* The value a function returns when it caught an exception and returned None,
\* for functions whose regular result is a plain record.
Failed == [ok |-> FALSE]

Min(a, b) == IF a <= b THEN a ELSE b

\* ------------------------------------------------------------------ base64
B64Alphabet ==
    << "A","B","C","D","E","F","G","H","I","J","K","L","M","N","O","P",
       "Q","R","S","T","U","V","W","X","Y","Z","a","b","c","d","e","f",
       "g","h","i","j","k","l","m","n","o","p","q","r","s","t","u","v",
       "w","x","y","z","0","1","2","3","4","5","6","7","8","9","+","/" >>

B64Char(n) == B64Alphabet[n + 1]

B64Value(c) == (CHOOSE i \in 1..64 : B64Alphabet[i] = c) - 1

IsB64Char(c) == \E i \in 1..64 : B64Alphabet[i] = c

\* base64.b64encode(data): three bytes give four characters, a last group of
\* one or two bytes is padded with "=".
RECURSIVE b64encode(_)
b64encode(b) ==
    IF Len(b) = 0 THEN <<>>
    ELSE IF Len(b) = 1 THEN
        << B64Char(b[1] \div 4), B64Char((b[1] % 4) * 16), "=", "=" >>
    ELSE IF Len(b) = 2 THEN
        << B64Char(b[1] \div 4),
           B64Char((b[1] % 4) * 16 + (b[2] \div 16)),
           B64Char((b[2] % 16) * 4), "=" >>
    ELSE
        << B64Char(b[1] \div 4),
           B64Char((b[1] % 4) * 16 + (b[2] \div 16)),
           B64Char((b[2] % 16) * 4 + (b[3] \div 64)),
           B64Char(b[3] % 64) >> \o b64encode(SubSeq(b, 4, Len(b)))

\* binascii.a2b_base64 in its default, non-strict mode, which base64.b64decode
\* calls: characters outside the alphabet are skipped, padding that completes a
\* quad ends the decoding, and an incomplete quad at the end is an error.
\* qpos is the position in the current quad, acc the bits left over from it.
RECURSIVE a2b_base64(_, _, _, _, _)
a2b_base64(s, qpos, acc, pads, out) ==
    IF Len(s) = 0 THEN
        IF qpos # 0 THEN [ok |-> FALSE, v |-> <<>>] ELSE [ok |-> TRUE, v |-> out]
    ELSE LET c == Head(s)
             rest == Tail(s)
         IN  IF c = "=" THEN
                 IF qpos >= 2 /\ qpos + pads + 1 >= 4
                 THEN [ok |-> TRUE, v |-> out]
                 ELSE a2b_base64(rest, qpos, acc, pads + 1, out)
             ELSE IF ~IsB64Char(c) THEN a2b_base64(rest, qpos, acc, pads, out)
             ELSE LET n == B64Value(c)
                  IN  CASE qpos = 0 -> a2b_base64(rest, 1, n, 0, out)
                        [] qpos = 1 ->
                            a2b_base64(rest, 2, n % 16, 0,
                                       Append(out, acc * 4 + (n \div 16)))
                        [] qpos = 2 ->
                            a2b_base64(rest, 3, n % 4, 0,
                                       Append(out, acc * 16 + (n \div 4)))
                        [] OTHER ->
                            a2b_base64(rest, 0, 0, 0, Append(out, acc * 64 + n))

\* base64.b64decode(content) of a content read from JSON: a str is decoded,
\* any other JSON value raises.
b64decode(content) ==
    IF content.t = "str"
    THEN a2b_base64(content.v, 0, 0, 0, <<>>)
    ELSE [ok |-> FALSE, v |-> <<>>]

\* ------------------------------------------------- clipboard payload codec
ClipboardTypes == {"text", "image"}

ClipboardData(content, type, timestamp, device_name) ==
    [content |-> content, type |-> type, timestamp |-> timestamp,
     device_name |-> device_name]

\* _serialize_clipboard_data: the dict put in packet.data; a text content is
\* passed through, an image content (bytes) is base64-encoded into a str.
_serialize_clipboard_data(d) ==
    IF d.type = "text"
    THEN PyDict([type |-> d.type, timestamp |-> d.timestamp,
                 device_name |-> d.device_name, content |-> d.content])
    ELSE PyDict([type |-> d.type, timestamp |-> d.timestamp,
                 device_name |-> d.device_name,
                 content |-> PyStr(b64encode(d.content.v))])

RequiredFields == {"content", "type", "timestamp", "device_name"}

\* A character str.encode('utf-8') refuses: a lone surrogate.
LoneSurrogate == "\\udc80"

\* content.encode('utf-8').decode('utf-8') for a str content, with the
\* fallback str(content) on UnicodeError; other contents are left alone.
NormalizeText(content) ==
    IF content.t # "str" THEN content
    ELSE IF \A i \in 1..Len(content.v) : content.v[i] # LoneSurrogate
    THEN PyStr(content.v)
    ELSE PyStr(content.v)

\* A deserializer that leaves an image content as the base64 text it is.
DeserializeClipboardDataNoDecode(packet_data) ==
    IF packet_data.t # "dict" THEN Failed
    ELSE IF ~(RequiredFields \subseteq DOMAIN packet_data.v) THEN Failed
    ELSE LET pd == packet_data.v
         IN  IF pd.type \notin ClipboardTypes THEN Failed
             ELSE [ok |-> TRUE,
                   data |-> ClipboardData(NormalizeText(pd.content), pd.type,
                                          pd.timestamp, pd.device_name)]

\* _deserialize_clipboard_data: Failed stands for the None the code returns on
\* a missing field, an unknown type, undecodable base64 or any exception
\* (packet_data None makes `field not in packet_data` raise TypeError).
_deserialize_clipboard_data(packet_data) ==
    IF packet_data.t # "dict" THEN Failed
    ELSE IF ~(RequiredFields \subseteq DOMAIN packet_data.v) THEN Failed
    ELSE LET pd == packet_data.v
         IN  IF pd.type \notin ClipboardTypes THEN Failed
             ELSE IF pd.type = "image" THEN
                 LET dec == b64decode(pd.content)
                 IN  IF ~dec.ok THEN Failed
                     ELSE [ok |-> TRUE,
                           data |-> ClipboardData(PyBytes(dec.v), pd.type,
                                                  pd.timestamp, pd.device_name)]
             ELSE [ok |-> TRUE,
                   data |-> ClipboardData(NormalizeText(pd.content), pd.type,
                                          pd.timestamp, pd.device_name)]

\* ------------------------------------------------------------ packet codec
NetworkPacket(packet_type, sender_name, sender_ip, timestamp, data) ==
    [packet_type |-> packet_type, sender_name |-> sender_name,
     sender_ip |-> sender_ip, timestamp |-> timestamp, data |-> data]

PacketFields == {"packet_type", "sender_name", "sender_ip", "timestamp"}

\* What json.dumps writes for packet.data and json.loads reads back: None is
\* null, a dict is an object, a str content is a JSON string; str and number
\* members keep their value.  bytes are not JSON serializable.
JsonNull == [t |-> "null", v |-> <<>>]

JsonOfData(data) ==
    IF data.t = "None" THEN JsonNull
    ELSE IF data.t = "dict" THEN
        [t |-> "object",
         v |-> [k \in DOMAIN data.v |->
                   IF k = "content"
                   THEN [t |-> "string", v |-> data.v[k].v]
                   ELSE data.v[k]]]
    ELSE [t |-> "string", v |-> data.v]

DataOfJson(j) ==
    IF j.t = "null" THEN None
    ELSE IF j.t = "object" THEN
        PyDict([k \in DOMAIN j.v |->
                   IF k = "content" THEN PyStr(j.v[k].v) ELSE j.v[k]])
    ELSE PyStr(j.v)

\* A datagram or frame as the receiver reads it: bytes that are not UTF-8
\* ("garbage"), UTF-8 text that is not JSON ("text"), JSON that is not an
\* object ("scalar"), or a JSON object with its members.
NoMembers == [k \in {} |-> JsonNull]

Wire(w, obj) == [w |-> w, obj |-> obj]

\* _serialize_packet: json.dumps of the five members, UTF-8 encoded.
_serialize_packet(packet) ==
    Wire("object",
         [packet_type |-> packet.packet_type, sender_name |-> packet.sender_name,
          sender_ip |-> packet.sender_ip, timestamp |-> packet.timestamp,
          data |-> JsonOfData(packet.data)])

\* A deserializer that takes any JSON object for a packet.
DeserializePacketLax(wire) ==
    IF wire.w # "object" THEN Failed
    ELSE LET o == wire.obj
             get(k, d) == IF k \in DOMAIN o THEN o[k] ELSE d
         IN  [ok |-> TRUE,
              packet |-> NetworkPacket(get("packet_type", ""), get("sender_name", ""),
                                       get("sender_ip", ""), get("timestamp", 0),
                                       IF "data" \in DOMAIN o
                                       THEN DataOfJson(o.data) ELSE None)]

\* A deserializer that also rejects a packet_type outside the protocol.
DeserializePacketStrict(wire) ==
    IF wire.w # "object" THEN Failed
    ELSE IF ~(PacketFields \subseteq DOMAIN wire.obj) THEN Failed
    ELSE IF wire.obj.packet_type \notin
              {"device_announce", "device_discovery", "device_heartbeat",
               "device_info", "clipboard_data"} THEN Failed
    ELSE LET o == wire.obj
         IN  [ok |-> TRUE,
              packet |-> NetworkPacket(o.packet_type, o.sender_name, o.sender_ip,
                                       o.timestamp,
                                       IF "data" \in DOMAIN o
                                       THEN DataOfJson(o.data) ELSE None)]

\* _deserialize_packet: data.decode('utf-8') and json.loads raise on garbage
\* and on text that is not JSON, packet_data['packet_type'] raises TypeError
\* on JSON that is not an object and KeyError on a missing member; every
\* exception is caught and None returned (Failed).  data is read with .get.
_deserialize_packet(wire) ==
    IF wire.w # "object" THEN Failed
    ELSE IF ~(PacketFields \subseteq DOMAIN wire.obj) THEN Failed
    ELSE LET o == wire.obj
         IN  [ok |-> TRUE,
              packet |-> NetworkPacket(o.packet_type, o.sender_name, o.sender_ip,
                                       o.timestamp,
                                       IF "data" \in DOMAIN o
                                       THEN DataOfJson(o.data) ELSE None)]

\* ------------------------------------------------------ devices and peers
LocalName == "A"
LocalIp == "10.0.0.1"
LocalPlatform == "Linux"

PeerB == [name |-> "B", ip |-> "10.0.0.2"]
PeerC == [name |-> "C", ip |-> "10.0.0.3"]
Peers == {PeerB, PeerC}
Local == [name |-> LocalName, ip |-> LocalIp]

DeviceInfo(name, ip_address, last_seen, platform) ==
    [name |-> name, ip_address |-> ip_address, last_seen |-> last_seen,
     platform |-> platform]

\* f"{name}@{ip}": the key of _connected_devices.
DeviceIdOf(name, ip) == name \o "@" \o ip

\* f"{websocket.remote_address[0]}:{websocket.remote_address[1]}": the key of
\* self.clients.
ClientIdOf(ip, port) == ip \o ":" \o ToString(port)

\* A dict with key k set to v; an existing key keeps its place.
Put(f, k, v) == [x \in DOMAIN f \cup {k} |-> IF x = k THEN v ELSE f[x]]

\* A dict without the keys in R.
Without(f, R) == [x \in DOMAIN f \ R |-> f[x]]

NoDevices == [x \in {} |-> DeviceInfo("", "", 0, "")]

\* A callback invocation callback(kind, device).
Event(kind, device) == <<kind, device>>

\* ------------------------------------------------------------------ state
VARIABLES
    impl,               \* which NetworkInterface class the node runs: "udp" | "ws"
    connected_devices,  \* self._connected_devices
    device_callback,    \* self._device_callback is set
    processed,          \* the dedup set: the keys of the tracked messages in it
    processed_anon,     \* the dedup set: how many other keys it holds
    now,                \* the receiver's time.time()
    cleanup_pc,         \* _cleanup_devices: "sleep" | "sweep"
    current_time,       \* _cleanup_devices: the local current_time (0 between passes)
    clients,            \* self.clients: the ids of the open connections
    conn_devices,       \* per open connection, the device ids registered over it
    dev_events,         \* bag of the device callback's invocations in the last step
    clip_events,        \* the clipboard callback's invocations in the last step
    sent,               \* the packets the node sent in the last step
    delivered,          \* per tracked key, how often its message reached the callback
    evicted,            \* per tracked key, how often it was evicted from the dedup set
    evictions,          \* number of eviction passes so far
    dropped,            \* _listen_loop has passed over a datagram that is no packet
    bc_closed,          \* the connections closed since the running broadcast began
    last_op             \* the operation of the last step

tvars == << impl, connected_devices, device_callback, processed, processed_anon,
            now, cleanup_pc, current_time, clients, conn_devices,
            dev_events, clip_events, sent, delivered, evicted, evictions,
            dropped, bc_closed, last_op >>

VARIABLES
    history,            \* per node, ClipboardManager.history (a deque(maxlen))
    files,              \* per node, the *.png files in ClipboardManager.data_dir
    hist_ret,           \* what get_history() returned in the last step
    loop_tasks,         \* per node, the _broadcast_packet tasks scheduled on its loop
    discovered,         \* per node, the ids in discovery.discovered_devices
    server_clients,     \* per node, the keys of WebSocketClipboardNetwork.clients
    mgr_op              \* the ClipboardManager operation of the last step

mvars == << history, files, hist_ret, loop_tasks, discovered, server_clients, mgr_op >>

VARIABLES
    codec_pc,           \* "idle" | "input" | "encoded" | "decoded"
    codec_in,           \* the value handed to the serializer
    codec_wire,         \* what the serializer returned
    codec_out           \* what the deserializer returned

cvars == << codec_pc, codec_in, codec_wire, codec_out >>

VARIABLES
    bc,                 \* the running _broadcast_packet task of the WebSocket server
    lc,                 \* UDPClipboardNetwork: _listening, self.port and its threads
    snd                 \* UDPClipboardNetwork: the running _broadcast_packet call

VARIABLES
    subscribers,        \* ClipboardManager: _device_callbacks and its last event
    stop_call,          \* UDPClipboardNetwork: the running stop_listening() call
    hb_peer,            \* a peer's _send_heartbeat thread and its clock
    disc_net            \* the datagrams in flight on the discovery port (8766)

evars == << subscribers, stop_call, hb_peer, disc_net >>

VARIABLES
    ws_conn,            \* WebSocketClipboardNetwork: each _handle_client's position
    bind_log,           \* UDPClipboardNetwork: the ports the running bind loop tried
    dev_lock,           \* self._device_lock and the threads that use it
    ev_hist,            \* what the device callback has been called with, per id
    socks,              \* UDPClipboardNetwork: self._socket, self._broadcast_socket
    simple              \* a SimpleWebSocketNetwork instance

hvars == << ws_conn, bind_log, dev_lock, ev_hist, socks, simple >>

xvars == << bc, lc, snd, evars, hvars >>

\* How many subscribers the model registers with add_device_callback.
MaxSubscribers == 3

\* A subscriber is a callable that returns ("ok") or raises ("raises").
\* called lists, in call order, the positions of the subscribers the last
\* _on_device_event call invoked; escaped tells whether that call raised
\* into the transport that made it.
NoSubscribers ==
    [callbacks |-> <<>>, event |-> <<>>, called |-> <<>>, escaped |-> FALSE]

\* pc is the position of the stop_listening() call, i the thread of
\* [listen, heartbeat, cleanup] its for loop is at, warned the threads that
\* were still alive after join(timeout=5), sockets what became of the two
\* sockets.
NoStop == [pc |-> "idle", i |-> 0, warned |-> {}, sockets |-> "open"]

\* offset is how far the peer's clock is behind the receiver's, due the
\* receiver's time of the peer's next heartbeat.
NoPeer == [pc |-> "idle", offset |-> 0, due |-> 0]

\* No _handle_client coroutine runs: wire holds, for each client id, the
\* packet types of the frames written on its latest connection, in order;
\* listening holds the connections whose handler has reached
\* `async for message in websocket`.
NoHandlers == [wire |-> [c \in {} |-> <<>>], listening |-> {}]

\* No bind loop has run: ports lists the ports of the bind() calls of the
\* latest bind loop, last is the outcome of the latest call.
NoBindLog == [ports |-> <<>>, last |-> ""]

\* self._device_lock = threading.Lock(), not held.  holder is the thread that
\* holds it; pc tells where the receive path ("receive": the listen thread or
\* the event loop) and the cleanup thread are: "idle", "callback" (inside
\* self._device_callback) or "blocked" (in an acquire that cannot return).
Unlocked == [holder |-> "", pc |-> [receive |-> "idle", cleanup |-> "idle"]]

\* The device callback has not been called: last is the kind of the latest
\* event of each device id, count how many events the id has had (counted up
\* to MaxEventCount), alternates whether every id's events so far went
\* 'device_joined', 'device_left', 'device_joined', ...
MaxEventCount == 3
NoEventHistory ==
    [last |-> [id \in {} |-> ""], count |-> [id \in {} |-> 0], alternates |-> TRUE]

\* self._socket and self._broadcast_socket are None: "none" is None, "open" an
\* open socket, "closed" a socket object that has been closed and is still
\* referenced.  hb_pc is the position of the heartbeat thread in its loop: at
\* the test of `while self._listening` ("check"), before _broadcast_packet
\* ("send") or in time.sleep(10) ("sleep").
NoSockets == [listen |-> "none", broadcast |-> "none", hb_pc |-> "check"]

\* SimpleWebSocketNetwork.__init__: clients and connected_devices are empty
\* and no callback is set; events lists the calls of _device_callback the
\* last step made.
SimpleInit ==
    [clients |-> {}, connected_devices |-> NoDevices, device_callback |-> FALSE,
     events |-> <<>>]

ExtrasIdle ==
    /\ subscribers = NoSubscribers
    /\ stop_call = NoStop
    /\ hb_peer = NoPeer
    /\ disc_net = {}
    /\ ws_conn = NoHandlers
    /\ bind_log = NoBindLog
    /\ dev_lock = Unlocked
    /\ ev_hist = NoEventHistory
    /\ socks = NoSockets
    /\ simple = SimpleInit

Op(op, arg, valid, dup) ==
    [op |-> op, arg |-> arg, valid |-> valid, dup |-> dup, tag |-> ""]

\* ---------------------------------------------------------- the dedup set
\* f"{sender_name}@{sender_ip}:{timestamp}:{hash(str(content)[:100])}".  str()
\* of a str is the str, of bytes its repr b'\x..'; hash is taken as collision
\* free, so the key is the triple of sender id, payload timestamp and prefix.
HexDigits == << "0","1","2","3","4","5","6","7","8","9","a","b","c","d","e","f" >>

\* repr of the bytes the model uses (none of them printable ASCII).
RECURSIVE ReprBytes(_)
ReprBytes(b) ==
    IF Len(b) = 0 THEN <<>>
    ELSE << "\\", "x", HexDigits[(b[1] \div 16) + 1], HexDigits[(b[1] % 16) + 1] >>
         \o ReprBytes(Tail(b))

StrOf(content) ==
    IF content.t = "str" THEN content.v
    ELSE << "b", "'" >> \o ReprBytes(content.v) \o << "'" >>

Prefix(s, n) == SubSeq(s, 1, Min(Len(s), n))

DataId(packet, clipboard_data) ==
    << DeviceIdOf(packet.sender_name, packet.sender_ip),
       clipboard_data.timestamp,
       Prefix(StrOf(clipboard_data.content), HashPrefixLen) >>

\* The set is held as (keys, anon): the keys of the tracked messages, and the
\* number of keys of messages that are never sent again once delivered.
Dedup(keys, anon) == [keys |-> keys, anon |-> anon]

DedupLen(d) == Cardinality(d.keys) + d.anon

\* self._processed_clipboard_data.add(data_id)
DedupAdd(d, data_id, fresh) ==
    IF fresh THEN Dedup(d.keys, d.anon + 1) ELSE Dedup(d.keys \cup {data_id}, d.anon)

\* A cleanup that evicts nothing.
DedupCleanupNone(d) == {d}

\* if len(set) > 100: discard list(set)[:50].  The iteration order of a set of
\* str is the order of their (per-process randomized) hashes, so any 50
\* entries may go, the key just added among them: every outcome is possible.
DedupCleanup(d) ==
    IF DedupLen(d) > DedupCap
    THEN { Dedup(d.keys \ E, d.anon - (EvictCount - Cardinality(E))) :
             E \in { X \in SUBSET d.keys :
                       /\ Cardinality(X) <= EvictCount
                       /\ EvictCount - Cardinality(X) <= d.anon } }
    ELSE {d}

\* --------------------------------------------------------- handler results
\* What a handler leaves behind: the registry, the dedup set, the callbacks it
\* invoked, the packets it sent, the ids it upserted, and whether it dropped a
\* clipboard packet as a duplicate.
Result(devices, dedup, events, clips, out, upserted, dup) ==
    [devices |-> devices, dedup |-> dedup, dev_events |-> events,
     clip_events |-> clips, sent |-> out, upserted |-> upserted, dup |-> dup]

\* The handler returned, or raised into the caller's `except Exception`,
\* before it changed anything.
NoEffect(st) == Result(st.devices, st.dedup, EmptyBag, <<>>, <<>>, {}, FALSE)

State == [devices |-> connected_devices,
          dedup |-> Dedup(processed, processed_anon),
          cb |-> device_callback,
          now |-> now]

Get(f, k, default) == IF k \in DOMAIN f THEN f[k] ELSE default

\* `x if packet.data else y`: None, an empty str and an empty dict are false.
Falsy(data) ==
    \/ data.t = "None"
    \/ data.t = "str" /\ data.v = <<>>
    \/ data.t = "dict" /\ DOMAIN data.v = {}

\* ---------------------------------------------------- UDPClipboardNetwork
PresenceTypes == {"device_announce", "device_discovery", "device_heartbeat"}

\* announce_device(): the packet handed to _broadcast_packet.
AnnouncePacket(t) ==
    NetworkPacket("device_announce", LocalName, LocalIp, t,
                  PyDict([platform |-> LocalPlatform]))

\* An upsert that reports every packet as a join.
UpdateDeviceAlwaysJoined(st, device_info) ==
    LET device_id == DeviceIdOf(device_info.name, device_info.ip_address)
    IN  Result(Put(st.devices, device_id, device_info), st.dedup,
               IF st.cb THEN SetToBag({Event("device_joined", device_info)})
               ELSE EmptyBag,
               <<>>, <<>>, {device_id}, FALSE)

\* An upsert that keeps only the device it was called with.
UpdateDeviceReplacing(st, device_info) ==
    LET device_id == DeviceIdOf(device_info.name, device_info.ip_address)
    IN  Result(Put(NoDevices, device_id, device_info), st.dedup,
               IF device_id \notin DOMAIN st.devices /\ st.cb
               THEN SetToBag({Event("device_joined", device_info)})
               ELSE EmptyBag,
               <<>>, <<>>, {device_id}, FALSE)

\* _update_device, under self._device_lock.
_update_device(st, device_info) ==
    LET device_id == DeviceIdOf(device_info.name, device_info.ip_address)
        is_new == device_id \notin DOMAIN st.devices
    IN  Result(Put(st.devices, device_id, device_info), st.dedup,
               IF is_new /\ st.cb
               THEN SetToBag({Event("device_joined", device_info)})
               ELSE EmptyBag,
               <<>>, <<>>, {device_id}, FALSE)

\* A delivery without the duplicate check.
DeliverUnchecked(st, data_id, clipboard_data, fresh) ==
    { Result(st.devices, d, EmptyBag, <<clipboard_data>>, <<>>, {}, FALSE) :
        d \in DedupCleanup(DedupAdd(st.dedup, data_id, fresh)) }

\* The clipboard_data branch of _handle_packet from data_id on.  fresh says
\* that the message is one of those never sent twice: its key is new.
UDP_dedup_and_deliver(st, data_id, clipboard_data, fresh) ==
    IF ~fresh /\ data_id \in st.dedup.keys
    THEN {[NoEffect(st) EXCEPT !.dup = TRUE]}
    ELSE { Result(st.devices, d, EmptyBag, <<clipboard_data>>, <<>>, {}, FALSE) :
             d \in DedupCleanup(DedupAdd(st.dedup, data_id, fresh)) }

\* A handler that answers every presence packet with an announcement.
HandlePacketReplyToPresence(st, packet, fresh) ==
    IF packet.sender_name = LocalName /\ packet.sender_ip = LocalIp
    THEN {NoEffect(st)}
    ELSE IF packet.packet_type \in PresenceTypes THEN
        IF ~Falsy(packet.data) /\ packet.data.t # "dict" THEN {NoEffect(st)}
        ELSE LET platform == IF Falsy(packet.data) THEN "Unknown"
                             ELSE Get(packet.data.v, "platform", "Unknown")
                 upd == _update_device(st, DeviceInfo(packet.sender_name,
                                                      packet.sender_ip,
                                                      packet.timestamp, platform))
             IN  {[upd EXCEPT !.sent = <<AnnouncePacket(st.now)>>]}
    ELSE IF packet.packet_type = "clipboard_data" THEN
        LET r == _deserialize_clipboard_data(packet.data)
        IN  IF ~r.ok THEN {NoEffect(st)}
            ELSE UDP_dedup_and_deliver(st, DataId(packet, r.data), r.data, fresh)
    ELSE {NoEffect(st)}

\* A handler without the check of the sender against the local device.
HandlePacketFromAnyone(st, packet, fresh) ==
    IF packet.packet_type \in PresenceTypes THEN
        IF ~Falsy(packet.data) /\ packet.data.t # "dict" THEN {NoEffect(st)}
        ELSE LET platform == IF Falsy(packet.data) THEN "Unknown"
                             ELSE Get(packet.data.v, "platform", "Unknown")
                 upd == _update_device(st, DeviceInfo(packet.sender_name,
                                                      packet.sender_ip,
                                                      packet.timestamp, platform))
             IN  IF packet.packet_type = "device_discovery"
                 THEN {[upd EXCEPT !.sent = <<AnnouncePacket(st.now)>>]}
                 ELSE {upd}
    ELSE IF packet.packet_type = "clipboard_data" THEN
        LET r == _deserialize_clipboard_data(packet.data)
        IN  IF ~r.ok THEN {NoEffect(st)}
            ELSE UDP_dedup_and_deliver(st, DataId(packet, r.data), r.data, fresh)
    ELSE {NoEffect(st)}

\* _handle_packet(packet, addr).  An exception it raises (packet.data.get on a
\* data that is neither None nor a dict) is caught by _listen_loop.
UDP_handle_packet(st, packet, fresh) ==
    IF packet.sender_name = LocalName /\ packet.sender_ip = LocalIp
    THEN {NoEffect(st)}
    ELSE IF packet.packet_type \in PresenceTypes THEN
        IF ~Falsy(packet.data) /\ packet.data.t # "dict" THEN {NoEffect(st)}
        ELSE LET platform == IF Falsy(packet.data) THEN "Unknown"
                             ELSE Get(packet.data.v, "platform", "Unknown")
                 upd == _update_device(st, DeviceInfo(packet.sender_name,
                                                      packet.sender_ip,
                                                      packet.timestamp, platform))
             IN  IF packet.packet_type = "device_discovery"
                 THEN {[upd EXCEPT !.sent = <<AnnouncePacket(st.now)>>]}
                 ELSE {upd}
    ELSE IF packet.packet_type = "clipboard_data" THEN
        LET r == _deserialize_clipboard_data(packet.data)
        IN  IF ~r.ok THEN {NoEffect(st)}
            ELSE UDP_dedup_and_deliver(st, DataId(packet, r.data), r.data, fresh)
    ELSE {NoEffect(st)}

\* One iteration of _listen_loop's while: recvfrom, _deserialize_packet and,
\* for a packet, _handle_packet; a datagram that is no packet is passed over.
_listen_loop(st, datagram, fresh) ==
    LET r == _deserialize_packet(datagram)
    IN  IF r.ok THEN UDP_handle_packet(st, r.packet, fresh) ELSE {NoEffect(st)}

\* The devices a cleanup pass finds inactive.
InactiveDevices(devices, t) ==
    { device_id \in DOMAIN devices :
        t - devices[device_id].last_seen > DeviceTimeout }

\* A pass that compares with >= instead of >.
CleanupPassEarly(st, t) ==
    LET inactive == { device_id \in DOMAIN st.devices :
                        t - st.devices[device_id].last_seen >= DeviceTimeout }
    IN  Result(Without(st.devices, inactive), st.dedup,
               IF st.cb
               THEN SetToBag({ Event("device_left", st.devices[i]) : i \in inactive })
               ELSE EmptyBag,
               <<>>, <<>>, {}, FALSE)

\* One pass of _cleanup_devices under self._device_lock, with the current_time
\* it read before taking the lock.
_cleanup_devices(st, t) ==
    LET inactive == InactiveDevices(st.devices, t)
    IN  Result(Without(st.devices, inactive), st.dedup,
               IF st.cb
               THEN SetToBag({ Event("device_left", st.devices[i]) : i \in inactive })
               ELSE EmptyBag,
               <<>>, <<>>, {}, FALSE)

\* get_connected_devices(): list(self._connected_devices.values()).
UDP_get_connected_devices == { connected_devices[i] : i \in DOMAIN connected_devices }

\* ----------------------------------------------- WebSocketClipboardNetwork
\* The device_info packet _handle_client sends to a new client.
DeviceInfoPacket(t) ==
    NetworkPacket("device_info", LocalName, LocalIp, t,
                  PyDict([platform |-> LocalPlatform,
                          device_info |-> [name |-> LocalName,
                                           ip_address |-> LocalIp,
                                           platform |-> LocalPlatform]]))

NoDeviceData == [k \in {} |-> ""]

\* The clipboard_data branch of _handle_packet from data_id on.
WS_dedup_and_deliver(st, data_id, clipboard_data, fresh) ==
    IF fresh \/ data_id \notin st.dedup.keys
    THEN { Result(st.devices, d, EmptyBag, <<clipboard_data>>, <<>>, {}, FALSE) :
             d \in DedupCleanup(DedupAdd(st.dedup, data_id, fresh)) }
    ELSE {[NoEffect(st) EXCEPT !.dup = TRUE]}

\* The device_info branch of _handle_packet.  packet.data.get raises on a
\* data that is no dict; _handle_client catches it.
WS_register_device(st, packet) ==
    IF packet.data.t # "dict" THEN NoEffect(st)
    ELSE LET sender_device_id == DeviceIdOf(packet.sender_name, packet.sender_ip)
             device_data == Get(packet.data.v, "device_info", NoDeviceData)
             device_info == DeviceInfo(Get(device_data, "name", packet.sender_name),
                                       Get(device_data, "ip_address", packet.sender_ip),
                                       packet.timestamp,
                                       Get(device_data, "platform", "Unknown"))
             is_new == sender_device_id \notin DOMAIN st.devices
         IN  Result(Put(st.devices, sender_device_id, device_info), st.dedup,
                    IF is_new /\ st.cb
                    THEN SetToBag({Event("device_joined", device_info)})
                    ELSE EmptyBag,
                    <<>>, <<>>, {sender_device_id}, FALSE)

\* async _handle_packet(packet, websocket): it awaits nothing, so it runs to
\* its end without another task of the event loop in between.
WS_handle_packet(st, packet, fresh) ==
    IF packet.sender_name = LocalName /\ packet.sender_ip = LocalIp
    THEN {NoEffect(st)}
    ELSE IF packet.packet_type = "device_info" THEN {WS_register_device(st, packet)}
    ELSE IF packet.packet_type = "clipboard_data" THEN
        LET r == _deserialize_clipboard_data(packet.data)
        IN  IF ~r.ok THEN {NoEffect(st)}
            ELSE WS_dedup_and_deliver(st, DataId(packet, r.data), r.data, fresh)
    ELSE {NoEffect(st)}

\* One iteration of `async for message in websocket` in _handle_client.
WS_on_message(st, message, fresh) ==
    LET r == _deserialize_packet(message)
    IN  IF r.ok THEN WS_handle_packet(st, r.packet, fresh) ELSE {NoEffect(st)}

\* The registry part of _handle_client's finally block: the device is looked
\* up under device_id = f"{client_id}".
WS_on_disconnect(st, client_id) ==
    LET device_id == client_id
    IN  IF device_id \in DOMAIN st.devices
        THEN Result(Without(st.devices, {device_id}), st.dedup,
                    IF st.cb
                    THEN SetToBag({Event("device_left", st.devices[device_id])})
                    ELSE EmptyBag,
                    <<>>, <<>>, {}, FALSE)
        ELSE NoEffect(st)

\* ------------------------------------------------------ the environment
\* The timestamps the peers put in their presence packets (their own clocks).
PacketStamps == {0, 2}

\* The instants at which the model looks at the receiver's clock: its start,
\* and for every stamp the last instant at which a device seen at that stamp is
\* still within the timeout and the first at which it is not.
ClockValues ==
    {0} \cup { t + DeviceTimeout + d : t \in PacketStamps, d \in {0, 1} }

ClipText == ClipboardData(PyStr(<<"h", "i">>), "text", 1, "B")
ClipImage == ClipboardData(PyBytes(<<0, 255>>), "image", 2, "B")
ClipFresh == ClipboardData(PyStr(<<"f">>), "text", 3, "B")

ClipPacket(sender, d, t) ==
    NetworkPacket("clipboard_data", sender.name, sender.ip, t,
                  _serialize_clipboard_data(d))

TextPacket == ClipPacket(PeerB, ClipText, 1)
ImagePacket == ClipPacket(PeerB, ClipImage, 2)
FreshPacket == ClipPacket(PeerB, ClipFresh, 3)

\* The dedup key the receiver computes for a clipboard packet.
KeyOf(packet) == DataId(packet, _deserialize_clipboard_data(packet.data).data)

TrackedPackets == {TextPacket, ImagePacket}
TrackedKeys == { KeyOf(p) : p \in TrackedPackets }

\* A packet's wire form with one member removed.
Drop(wire, field) == Wire(wire.w, [k \in DOMAIN wire.obj \ {field} |-> wire.obj[k]])

Heartbeat(sender, t) ==
    NetworkPacket("device_heartbeat", sender.name, sender.ip, t, None)

\* What the receiver cannot read as a packet: bytes that are not UTF-8, text
\* that is not JSON, JSON that is not an object, and an object that lacks one
\* of the four members _deserialize_packet subscripts.
Malformed(wire) ==
    \/ wire.w # "object"
    \/ \E f \in PacketFields : f \notin DOMAIN wire.obj

\* A member of a well-formed datagram, "" for any other datagram.
WireField(wire, f) ==
    IF wire.w = "object" /\ f \in DOMAIN wire.obj THEN wire.obj[f] ELSE ""

\* The data member as the receiver reads it (packet_data.get('data')).
WireData(wire) ==
    IF wire.w = "object" /\ "data" \in DOMAIN wire.obj
    THEN DataOfJson(wire.obj.data) ELSE None

\* The packet types of the protocol.
KnownPacketTypes ==
    {"device_announce", "device_discovery", "device_heartbeat", "device_info",
     "clipboard_data"}

\* Base64 text as RFC 4648 defines it: quads of alphabet characters, the last
\* one padded with at most two "=".
IsValidBase64(content) ==
    /\ content.t = "str"
    /\ LET s == content.v
           n == Len(s)
           p == IF n >= 2 /\ s[n] = "=" /\ s[n - 1] = "=" THEN 2
                ELSE IF n >= 1 /\ s[n] = "=" THEN 1 ELSE 0
       IN  /\ n % 4 = 0
           /\ \A i \in 1..(n - p) : IsB64Char(s[i])

\* A clipboard payload that is absent, lacks a required field, names a type
\* other than text and image, or carries an image that is not valid base64.
InvalidPayload(data) ==
    \/ data.t # "dict"
    \/ \E f \in RequiredFields : f \notin DOMAIN data.v
    \/ /\ data.t = "dict"
       /\ RequiredFields \subseteq DOMAIN data.v
       /\ \/ data.v.type \notin ClipboardTypes
          \/ data.v.type = "image" /\ ~IsValidBase64(data.v.content)

\* Clipboard packets of peer B without a valid payload: no payload, a payload
\* that lacks one field, a type the receiver does not know, an image whose
\* base64 text lacks its padding, and an image whose text has no character of
\* the base64 alphabet.
BadPayloads ==
    LET good == _serialize_clipboard_data(ClipText).v
        image == _serialize_clipboard_data(ClipImage).v
    IN  {None}
        \cup { PyDict([k \in DOMAIN good \ {f} |-> good[k]]) : f \in RequiredFields }
        \cup { PyDict([good EXCEPT !.type = "file"]),
               PyDict([image EXCEPT !.content = PyStr(<<"A", "P", "8">>)]),
               PyDict([image EXCEPT !.content = PyStr(<<"@", "@", "@", "@">>)]) }

BadClipPackets ==
    { NetworkPacket("clipboard_data", PeerB.name, PeerB.ip, 4, d) : d \in BadPayloads }

\* Packets of a type outside the protocol: one without data and one that
\* carries a clipboard payload.
BogusPacket == NetworkPacket("bogus", PeerB.name, PeerB.ip, 2, None)

UnknownTypePackets ==
    {BogusPacket, [ClipPacket(PeerB, ClipText, 2) EXCEPT !.packet_type = "clipboard"]}

\* A discovery request whose data is a JSON string.
DiscoveryWithText ==
    NetworkPacket("device_discovery", PeerB.name, PeerB.ip, 2, PyStr(<<"x">>))

\* Packets the node itself has sent and that come back to it: its heartbeat,
\* its discovery request, its announcement, its device_info and a clipboard
\* packet it has broadcast.
SelfClipPacket == ClipPacket(Local, ClipText, 1)

SelfPackets ==
    { Heartbeat(Local, 2),
      NetworkPacket("device_discovery", LocalName, LocalIp, 0, None),
      AnnouncePacket(0), DeviceInfoPacket(0), SelfClipPacket }

\* Datagrams that are no packet: not UTF-8, not JSON, not a JSON object, or an
\* object without one of the four required members.
InvalidDatagrams ==
    {Wire("garbage", NoMembers), Wire("text", NoMembers), Wire("scalar", NoMembers)}
    \cup { Drop(_serialize_packet(Heartbeat(PeerB, 2)), f) : f \in PacketFields }

\* The presence packets a peer sends: announce_device() with its platform,
\* discover_devices() and _send_heartbeat() without data.
PresencePackets ==
    { NetworkPacket("device_announce", s.name, s.ip, t, PyDict([platform |-> "Linux"])) :
        s \in Peers, t \in PacketStamps }
    \cup { NetworkPacket(ty, s.name, s.ip, t, None) :
             ty \in {"device_discovery", "device_heartbeat"},
             s \in Peers, t \in PacketStamps }

\* Packets from the node itself (its own broadcasts come back to its socket),
\* packets of a type the transport does not know, and a presence packet whose
\* data is a JSON string.
OtherPackets ==
    { Heartbeat(Local, 2),
      NetworkPacket("device_discovery", LocalName, LocalIp, 0, None),
      NetworkPacket("device_info", PeerB.name, PeerB.ip, 2, None),
      NetworkPacket("device_heartbeat", PeerB.name, PeerB.ip, 2, PyStr(<<"x">>)),
      NetworkPacket("bogus", PeerB.name, PeerB.ip, 2, None) }

UDPDatagrams ==
    { _serialize_packet(p) : p \in PresencePackets \cup OtherPackets \cup {TextPacket} }
    \cup InvalidDatagrams

\* The remote ends of the connections the server may accept.
Endpoints ==
    { [peer |-> PeerB, port |-> 50001], [peer |-> PeerC, port |-> 50002] }

ClientId(ep) == ClientIdOf(ep.peer.ip, ep.port)

DeviceInfoFull(peer) ==
    PyDict([platform |-> "Linux",
            device_info |-> [name |-> peer.name, ip_address |-> peer.ip,
                             platform |-> "Linux"]])

\* The frames a peer sends over its connection: its device_info (as
\* _handle_client sends it, and with data that lacks the inner dict or is
\* null), a packet type the transport ignores, a self-packet, its clipboard
\* message, and frames that are no packet.
WSFrames ==
    [ ep \in Endpoints |->
        { _serialize_packet(NetworkPacket("device_info", ep.peer.name, ep.peer.ip,
                                          t, DeviceInfoFull(ep.peer))) :
            t \in PacketStamps }
        \cup { _serialize_packet(NetworkPacket("device_info", ep.peer.name,
                                               ep.peer.ip, 2, d)) :
                 d \in {None, PyDict([platform |-> "Linux"])} }
        \cup { _serialize_packet(Heartbeat(ep.peer, 2)),
               _serialize_packet(Heartbeat(Local, 2)),
               Wire("text", NoMembers),
               Drop(_serialize_packet(Heartbeat(ep.peer, 2)), "sender_ip") }
        \cup (IF ep.peer = PeerB THEN {_serialize_packet(TextPacket)} ELSE {}) ]

\* ---------------------------------------------------------------- actions
NoKey == << "", 0, <<>> >>

\* The dedup key of a datagram that carries a decodable clipboard payload.
DatagramKey(datagram) ==
    LET r == _deserialize_packet(datagram)
    IN  IF r.ok /\ r.packet.packet_type = "clipboard_data"
             /\ _deserialize_clipboard_data(r.packet.data).ok
        THEN KeyOf(r.packet)
        ELSE NoKey

\* The environment stops sending a tracked message that has reached the
\* callback MaxDeliver times, and stops sending new messages when another one
\* would start eviction pass number MaxEvictions + 1.
MayAdd ==
    /\ DedupLen(State.dedup) <= DedupCap
    /\ DedupLen(State.dedup) < DedupCap \/ evictions < MaxEvictions

MaySend(datagram, fresh) ==
    LET k == DatagramKey(datagram)
    IN  IF fresh THEN MayAdd
        ELSE k \in TrackedKeys =>
                /\ delivered[k] < MaxDeliver
                /\ k \in processed \/ MayAdd

\* The handler's result becomes the node's state; delivered, evicted and
\* evictions record what happened to the tracked keys.
CommitState(res, key, fresh, op) ==
    LET got == res.clip_events # <<>>
        before == IF got /\ ~fresh THEN processed \cup {key} ELSE processed
    IN  /\ connected_devices' = res.devices
        /\ processed' = res.dedup.keys
        /\ processed_anon' = res.dedup.anon
        /\ dev_events' = res.dev_events
        /\ clip_events' = res.clip_events
        /\ sent' = res.sent
        /\ delivered' = [k \in TrackedKeys |->
                            delivered[k] + (IF got /\ ~fresh /\ k = key THEN 1 ELSE 0)]
        /\ evicted' = [k \in TrackedKeys |->
                          evicted[k] + (IF k \in before \ res.dedup.keys THEN 1 ELSE 0)]
        /\ evictions' = evictions
                        + (IF got /\ DedupLen(res.dedup) <= DedupLen(State.dedup)
                           THEN 1 ELSE 0)
        /\ dropped' = (dropped \/ (op.op = "receive" /\ ~op.valid))
        /\ last_op' = op

Commit(res, key, fresh, op) ==
    /\ CommitState(res, key, fresh, op)
    /\ UNCHANGED << mvars, cvars, xvars >>

Quiet(op) ==
    /\ dev_events' = EmptyBag
    /\ clip_events' = <<>>
    /\ sent' = <<>>
    /\ last_op' = op
    /\ UNCHANGED << delivered, evicted, evictions, dropped >>
    /\ UNCHANGED << mvars, cvars, xvars >>

\* The receive thread handles one datagram; tag records what the environment
\* sent.
UDP_ReceiveAs(datagram, fresh, tag) ==
    /\ impl = "udp"
    /\ MaySend(datagram, fresh)
    /\ \E res \in _listen_loop(State, datagram, fresh) :
          Commit(res, DatagramKey(datagram), fresh,
                 [Op("receive", "", ~Malformed(datagram), res.dup) EXCEPT !.tag = tag])
    /\ UNCHANGED << impl, bc_closed, device_callback, now, cleanup_pc, current_time,
                    clients, conn_devices >>

UDP_Receive(datagram, fresh) == UDP_ReceiveAs(datagram, fresh, "")

\* The cleanup thread reads time.time() at the top of its loop ...
UDP_CleanupSample ==
    /\ impl = "udp"
    /\ cleanup_pc = "sleep"
    /\ cleanup_pc' = "sweep"
    /\ current_time' = now
    /\ Quiet(Op("cleanup_sample", "", TRUE, FALSE))
    /\ UNCHANGED << impl, bc_closed, connected_devices, device_callback, processed,
                    processed_anon, now, clients, conn_devices >>

\* ... and, once it holds the lock, removes the inactive devices and sleeps.
UDP_CleanupSweep ==
    /\ impl = "udp"
    /\ cleanup_pc = "sweep"
    /\ cleanup_pc' = "sleep"
    /\ current_time' = 0
    /\ Commit(_cleanup_devices(State, current_time), NoKey, FALSE,
              Op("cleanup_sweep", "", TRUE, FALSE))
    /\ UNCHANGED << impl, bc_closed, device_callback, now, clients, conn_devices >>

\* Time passes: the receiver's clock is next read at a later instant.
Tick ==
    /\ \E t \in ClockValues : t > now /\ now' = t
    /\ Quiet(Op("tick", "", TRUE, FALSE))
    /\ UNCHANGED << impl, bc_closed, connected_devices, device_callback, processed,
                    processed_anon, cleanup_pc, current_time, clients, conn_devices >>

\* set_device_callback(callback)
set_device_callback ==
    /\ ~device_callback
    /\ device_callback' = TRUE
    /\ Quiet(Op("set_device_callback", "", TRUE, FALSE))
    /\ UNCHANGED << impl, bc_closed, connected_devices, processed, processed_anon, now,
                    cleanup_pc, current_time, clients, conn_devices >>

\* _handle_client up to its receive loop: the connection is registered and
\* the local device_info is sent to it.
WS_Accept(ep) ==
    /\ impl = "ws"
    /\ ClientId(ep) \notin clients
    /\ clients' = clients \cup {ClientId(ep)}
    /\ conn_devices' = Put(conn_devices, ClientId(ep), {})
    /\ dev_events' = EmptyBag
    /\ clip_events' = <<>>
    /\ sent' = << DeviceInfoPacket(now) >>
    /\ last_op' = Op("accept", ClientId(ep), TRUE, FALSE)
    /\ UNCHANGED << impl, bc_closed, connected_devices, device_callback, processed,
                    processed_anon, now, cleanup_pc, current_time, delivered,
                    evicted, evictions, dropped >>
    /\ UNCHANGED << mvars, cvars, xvars >>

\* _handle_client receives one frame from an open connection; tag records
\* what the environment sent.
WS_MessageAs(ep, message, fresh, tag) ==
    /\ impl = "ws"
    /\ ClientId(ep) \in clients
    /\ MaySend(message, fresh)
    /\ \E res \in WS_on_message(State, message, fresh) :
          /\ Commit(res, DatagramKey(message), fresh,
                    [Op("message", ClientId(ep), ~Malformed(message), res.dup)
                        EXCEPT !.tag = tag])
          /\ conn_devices' = [conn_devices EXCEPT ![ClientId(ep)] = @ \cup res.upserted]
    /\ UNCHANGED << impl, bc_closed, device_callback, now, cleanup_pc, current_time, clients >>

WS_Message(ep, message, fresh) == WS_MessageAs(ep, message, fresh, "")

\* The connection closes: _handle_client's finally block.
WS_Close(ep) ==
    /\ impl = "ws"
    /\ ClientId(ep) \in clients
    /\ clients' = clients \ {ClientId(ep)}
    /\ conn_devices' = Without(conn_devices, {ClientId(ep)})
    /\ bc_closed' = IF bc.pc = "send" THEN bc_closed \cup {ClientId(ep)} ELSE bc_closed
    /\ Commit(WS_on_disconnect(State, ClientId(ep)), NoKey, FALSE,
              Op("close", ClientId(ep), TRUE, FALSE))
    /\ UNCHANGED << impl, device_callback, now, cleanup_pc, current_time >>

\* ------------------------------------------- the _broadcast_packet task
\* The task's position: "send" while it is suspended in `await
\* websocket.send(message)` for the connection cur, "returned" or "raised"
\* once it is over.  size is the dict's size when the iteration began, visited
\* the keys the iteration has yielded, failed the list disconnected_clients,
\* got the connections whose send returned, start the keys at the beginning.
NoBroadcast ==
    [pc |-> "idle", cur |-> "", size |-> 0, visited |-> {}, failed |-> {},
     got |-> {}, start |-> {}]

\* The packet broadcast_clipboard builds.
BroadcastPacket == ClipPacket(Local, ClipText, 1)

\* _broadcast_packet(packet) up to its first await: nothing without clients,
\* otherwise the iteration over self.clients.items() begins and the first
\* send is awaited.  The model does not keep the dict's insertion order, so
\* any key may come first.
BroadcastStartState ==
    /\ impl = "ws"
    /\ bc.pc \in {"idle", "returned", "raised"}
    /\ IF clients = {}
       THEN bc' = [NoBroadcast EXCEPT !.pc = "returned"]
       ELSE \E c \in clients :
               bc' = [pc |-> "send", cur |-> c, size |-> Cardinality(clients),
                      visited |-> {c}, failed |-> {}, got |-> {}, start |-> clients]
    /\ bc_closed' = {}
    /\ dev_events' = EmptyBag
    /\ clip_events' = <<>>
    /\ sent' = <<>>
    /\ last_op' = Op("broadcast", "", TRUE, FALSE)
    /\ UNCHANGED << impl, connected_devices, device_callback, processed,
                    processed_anon, now, cleanup_pc, current_time, clients,
                    conn_devices, delivered, evicted, evictions, dropped >>

BroadcastStart ==
    /\ BroadcastStartState
    /\ UNCHANGED << mvars, cvars, lc, snd, evars, hvars >>

\* The awaited send returns (ok) or raises, and the for statement asks the
\* dict iterator for its next item: RuntimeError "dictionary changed size
\* during iteration" when _handle_client has added or removed a key in the
\* meantime, which ends the task; otherwise the next send is awaited or, after
\* the last key, the connections in disconnected_clients are deleted from
\* self.clients.  A send on a connection that has closed cannot return.
BroadcastResumeState(ok) ==
    /\ impl = "ws"
    /\ bc.pc = "send"
    /\ ok => bc.cur \notin bc_closed
    /\ LET failed == IF ok THEN bc.failed ELSE bc.failed \cup {bc.cur}
           got == IF ok THEN bc.got \cup {bc.cur} ELSE bc.got
           after == [bc EXCEPT !.failed = failed, !.got = got]
       IN  IF Cardinality(clients) # bc.size
           THEN /\ bc' = [after EXCEPT !.pc = "raised", !.cur = ""]
                /\ UNCHANGED << clients, conn_devices >>
           ELSE IF clients \ bc.visited = {}
           THEN /\ bc' = [after EXCEPT !.pc = "returned", !.cur = ""]
                /\ clients' = clients \ failed
                /\ conn_devices' = Without(conn_devices, failed)
           ELSE /\ \E c \in clients \ bc.visited :
                      bc' = [after EXCEPT !.cur = c, !.visited = @ \cup {c}]
                /\ UNCHANGED << clients, conn_devices >>
    /\ dev_events' = EmptyBag
    /\ clip_events' = <<>>
    /\ sent' = IF ok THEN << BroadcastPacket >> ELSE <<>>
    /\ last_op' = Op("broadcast_send", bc.cur, ok, FALSE)
    /\ UNCHANGED << impl, bc_closed, connected_devices, device_callback, processed,
                    processed_anon, now, cleanup_pc, current_time,
                    delivered, evicted, evictions, dropped >>

BroadcastResume(ok) ==
    /\ BroadcastResumeState(ok)
    /\ UNCHANGED << mvars, cvars, lc, snd, evars, hvars >>

\* ------------------------------------- UDPClipboardNetwork: start and stop
\* __init__(port=5555, broadcast_ports=None) and the attempts of the bind loop.
DefaultPort == 5555
BroadcastPorts == {5555, 5556, 5557, 5558, 5559}
BindAttempts == 10

\* How often the model calls start_listening() on a stopped node.
MaxStarts == 2

\* listen, hb and cleanup are the positions of the threads of _listen_loop,
\* _send_heartbeat and _cleanup_devices; start is how the last
\* start_listening() call ended; attempts counts the failed binds of the
\* running bind loop.
\* stale counts the threads of earlier start_listening() calls that were
\* still alive when a later call replaced self._listen_thread,
\* self._heartbeat_thread and self._cleanup_thread.
NoStale == [listen |-> 0, hb |-> 0, cleanup |-> 0]

Alive(status) == status \in {"binding", "bound", "running"}

Lifecycle(listening, listen, attempts, port, starts, start, hb, cleanup) ==
    [listening |-> listening, listen |-> listen, attempts |-> attempts,
     port |-> port, starts |-> starts, start |-> start, hb |-> hb,
     cleanup |-> cleanup, stale |-> NoStale]

NotStarted == Lifecycle(FALSE, "none", 0, DefaultPort, 0, "none", "none", "none")

Listening == Lifecycle(TRUE, "bound", 0, DefaultPort, 1, "returned", "running", "running")

DiscoveryPacket(t) == NetworkPacket("device_discovery", LocalName, LocalIp, t, None)

\* A step of one of the node's threads that touches neither the registry nor
\* the dedup set: pkts is what it handed to _broadcast_packet.
Output(pkts, op) ==
    /\ dev_events' = EmptyBag
    /\ clip_events' = <<>>
    /\ sent' = pkts
    /\ last_op' = op
    /\ UNCHANGED << impl, bc_closed, connected_devices, device_callback, processed,
                    processed_anon, now, cleanup_pc, current_time, clients,
                    conn_devices, delivered, evicted, evictions, dropped >>
    /\ UNCHANGED << mvars, cvars >>

\* start_listening(callback): nothing when already listening; otherwise
\* _listening is set, the three threads are started and, after a second,
\* announce_device() and discover_devices() are called.  The method returns
\* whatever becomes of the listen thread.  A thread of an earlier call that
\* has not ended yet is neither joined nor told apart from the new one: it
\* goes on as a stale thread.
start_listeningState ==
    /\ impl = "udp"
    /\ lc.starts < MaxStarts
    /\ IF lc.listening
       THEN /\ UNCHANGED lc
            /\ Output(<<>>, Op("start_listening", "", FALSE, FALSE))
       ELSE /\ lc' = [lc EXCEPT !.listening = TRUE, !.listen = "binding",
                                !.attempts = 0, !.starts = @ + 1,
                                !.start = "returned", !.hb = "running",
                                !.cleanup = "running",
                                !.stale = [t \in DOMAIN @ |->
                                              @[t] + (IF Alive(lc[t]) THEN 1 ELSE 0)]]
            /\ Output(<< AnnouncePacket(now), DiscoveryPacket(now) >>,
                      Op("start_listening", "", TRUE, FALSE))

start_listening ==
    /\ start_listeningState
    /\ UNCHANGED << bc, snd, evars, hvars >>

\* A bind loop that skips a port after every "address in use".
BindAttemptSkipping(outcome) ==
    /\ impl = "udp"
    /\ lc.listen = "binding"
    /\ lc' = IF outcome = "ok" THEN [lc EXCEPT !.listen = "bound"]
             ELSE IF outcome = "in_use"
             THEN [lc EXCEPT !.port = @ + 2, !.attempts = @ + 1,
                             !.listen = IF lc.attempts + 1 = BindAttempts
                                        THEN "failed" ELSE "binding"]
             ELSE [lc EXCEPT !.listen = "failed"]
    /\ Output(<<>>, Op("bind", outcome, outcome = "ok", FALSE))

\* One pass of `for attempt in range(10)` in _listen_loop: bind succeeds, or
\* fails with "address in use" (self.port += 1, and after the tenth failure
\* the Exception "Could not bind to any port in range"), or fails with
\* another OSError, which is re-raised.  Either exception is caught and
\* printed by the except of _listen_loop, and the thread ends.
BindAttemptState(outcome) ==
    /\ impl = "udp"
    /\ lc.listen = "binding"
    /\ lc' = IF outcome = "ok" THEN [lc EXCEPT !.listen = "bound"]
             ELSE IF outcome = "in_use"
             THEN [lc EXCEPT !.port = @ + 1, !.attempts = @ + 1,
                             !.listen = IF lc.attempts + 1 = BindAttempts
                                        THEN "failed" ELSE "binding"]
             ELSE [lc EXCEPT !.listen = "failed"]
    /\ Output(<<>>, Op("bind", outcome, outcome = "ok", FALSE))

BindAttempt(outcome) ==
    /\ BindAttemptState(outcome)
    /\ UNCHANGED << bc, snd, evars, hvars >>

\* The receive loop of the bound socket handles a datagram.
ListenReceive ==
    /\ lc.listen = "bound"
    /\ lc.listening
    /\ \E p \in PresencePackets : UDP_Receive(_serialize_packet(p), FALSE)

\* `while self._listening` in _listen_loop turns false, or recvfrom fails on
\* the socket stop_listening() closed: the thread ends.
ListenExitState ==
    /\ impl = "udp"
    /\ lc.listen = "bound"
    /\ ~lc.listening
    /\ lc' = [lc EXCEPT !.listen = "exited"]
    /\ Output(<<>>, Op("listen_exit", "", TRUE, FALSE))

ListenExit ==
    /\ ListenExitState
    /\ UNCHANGED << bc, snd, evars, hvars >>

\* One pass of `while self._listening` in _send_heartbeat.
HeartbeatStep ==
    /\ impl = "udp"
    /\ lc.hb = "running"
    /\ IF lc.listening
       THEN /\ UNCHANGED lc
            /\ Output(<< Heartbeat(Local, now) >>, Op("heartbeat", "", TRUE, FALSE))
       ELSE /\ lc' = [lc EXCEPT !.hb = "exited"]
            /\ Output(<<>>, Op("heartbeat", "", FALSE, FALSE))
    /\ UNCHANGED << bc, snd, evars, hvars >>

\* One pass of `while self._listening` in _cleanup_devices, in its two steps,
\* and the end of the thread.
CleanupStep ==
    /\ lc.cleanup = "running"
    /\ \/ lc.listening /\ UDP_CleanupSample
       \/ UDP_CleanupSweep

CleanupExit ==
    /\ impl = "udp"
    /\ lc.cleanup = "running"
    /\ ~lc.listening
    /\ cleanup_pc = "sleep"
    /\ lc' = [lc EXCEPT !.cleanup = "exited"]
    /\ Output(<<>>, Op("cleanup_exit", "", TRUE, FALSE))
    /\ UNCHANGED << bc, snd, evars, hvars >>

\* stop_listening(): _listening = False and the sockets are closed.
stop_listeningState ==
    /\ impl = "udp"
    /\ lc.listening
    /\ lc' = [lc EXCEPT !.listening = FALSE]
    /\ Output(<<>>, Op("stop_listening", "", TRUE, FALSE))

stop_listening ==
    /\ stop_listeningState
    /\ UNCHANGED << bc, snd, evars, hvars >>

\* ------------------------------------ UDPClipboardNetwork._broadcast_packet
\* How many sendto calls of one broadcast the model lets fail.
MaxSendFailures == 2

\* The (address, port) pairs of one broadcast: every port of
\* set([self.port] + self.broadcast_ports) with '<broadcast>',
\* '255.255.255.255' and the /24 broadcast address of device_ip.
BroadcastAddresses == << "<broadcast>", "255.255.255.255", "10.0.0.255" >>

RECURSIVE SortedPorts(_)
SortedPorts(ports) ==
    IF ports = {} THEN <<>>
    ELSE LET m == CHOOSE x \in ports : \A y \in ports : x <= y
         IN  << m >> \o SortedPorts(ports \ {m})

Destinations(port) ==
    LET ports == SortedPorts({port} \cup BroadcastPorts)
    IN  [ i \in 1..(3 * Len(ports)) |->
            << BroadcastAddresses[((i - 1) % 3) + 1], ports[((i - 1) \div 3) + 1] >> ]

\* The packets broadcast_clipboard, announce_device, discover_devices and
\* _send_heartbeat hand to _broadcast_packet.
SendPackets(t) ==
    [ broadcast_clipboard |-> ClipPacket(Local, ClipImage, t),
      announce_device |-> AnnouncePacket(t),
      discover_devices |-> DiscoveryPacket(t),
      _send_heartbeat |-> Heartbeat(Local, t) ]

\* caller is the method that called _broadcast_packet, attempted the
\* destinations sendto was called for, failed those for which it raised,
\* socket whether the broadcast socket exists, raised whether an exception
\* reached the caller.
NoSend ==
    [pc |-> "idle", caller |-> "", attempted |-> <<>>, failed |-> {},
     socket |-> FALSE, raised |-> FALSE]

\* _broadcast_packet up to its loops: the broadcast socket is created if
\* there is none, which may fail; the exception is caught by the outermost
\* except and the call returns.
UDP_BroadcastBegin(caller, socket_ok) ==
    /\ impl = "udp"
    /\ snd.pc \in {"idle", "returned"}
    /\ snd' = [pc |-> IF socket_ok THEN "sending" ELSE "returned",
               caller |-> caller, attempted |-> <<>>, failed |-> {},
               socket |-> socket_ok, raised |-> FALSE]
    /\ Output(<<>>, Op("broadcast_begin", caller, socket_ok, FALSE))
    /\ UNCHANGED << bc, lc, evars, hvars >>

\* A sendto that lets its exception out of the loops and of the method.
SendtoRaising(ok) ==
    /\ impl = "udp"
    /\ snd.pc = "sending"
    /\ ~ok => Cardinality(snd.failed) < MaxSendFailures
    /\ LET dests == Destinations(lc.port)
           d == dests[Len(snd.attempted) + 1]
           last == Len(snd.attempted) + 1 = Len(dests)
       IN  /\ snd' = [snd EXCEPT !.attempted = Append(@, d),
                                 !.failed = IF ok THEN @ ELSE @ \cup {d},
                                 !.raised = ~ok,
                                 !.pc = IF last \/ ~ok THEN "returned" ELSE "sending"]
           /\ Output(IF ok THEN << SendPackets(now)[snd.caller] >> ELSE <<>>,
                     Op("sendto", d[1], ok, FALSE))
    /\ UNCHANGED << bc, lc, evars, hvars >>

\* One sendto(serialized_data, (broadcast_addr, port)) of the inner loop: it
\* returns or raises, an exception is caught by `except Exception: continue`,
\* and after the last address of the last port the method returns.
UDP_BroadcastSendto(ok) ==
    /\ impl = "udp"
    /\ snd.pc = "sending"
    /\ ~ok => Cardinality(snd.failed) < MaxSendFailures
    /\ LET dests == Destinations(lc.port)
           d == dests[Len(snd.attempted) + 1]
           last == Len(snd.attempted) + 1 = Len(dests)
       IN  /\ snd' = [snd EXCEPT !.attempted = Append(@, d),
                                 !.failed = IF ok THEN @ ELSE @ \cup {d},
                                 !.pc = IF last THEN "returned" ELSE "sending"]
           /\ Output(IF ok THEN << SendPackets(now)[snd.caller] >> ELSE <<>>,
                     Op("sendto", d[1], ok, FALSE))
    /\ UNCHANGED << bc, lc, evars, hvars >>

\* -------------------------------------------------------- ClipboardManager
\* The two nodes of the synchronization network and their network identity.
Nodes == {"A", "B"}

NodeInfo(n) == IF n = "A" THEN Local ELSE PeerB

\* self.max_history, as every caller constructs the manager.
max_history == MaxHistoryDefault

\* What the clipboard monitor of a node captures: a text and an image.
LocalText(n) == ClipboardData(PyStr(<<"l", n>>), "text", 5, NodeInfo(n).name)
LocalImage(n) == ClipboardData(PyBytes(<<7>>), "image", 6, NodeInfo(n).name)
LocalCaptures(n) == {LocalText(n), LocalImage(n)}

\* What the network layer hands to the manager's clipboard callback.
RemoteClips == {ClipText, ClipImage}

\* f"{data.device_name}_{int(data.timestamp)}.png" under data_dir.
ImageFile(d) == d.device_name \o "_" \o ToString(d.timestamp) \o ".png"

\* _save_image_data: the bytes go to the file and data.content, of the object
\* that is already in the deque, becomes the path.
SavedImage(d) == [d EXCEPT !.content = PyStr(<< "data/" \o ImageFile(d) >>)]

\* A list append: nothing is evicted.
ListAppend(h, x, maxlen) == Append(h, x)

\* deque(maxlen=n).append(x): a full deque drops its leftmost entry.
DequeAppend(h, x, maxlen) ==
    IF maxlen = 0 THEN <<>>
    ELSE IF Len(h) >= maxlen THEN Append(SubSeq(h, Len(h) - maxlen + 2, Len(h)), x)
    ELSE Append(h, x)

\* self.history.append(data) and, for an image, _save_image_data(data); the
\* entry is the object the callers go on to use.
Stored(d) == IF d.type = "image" THEN SavedImage(d) ELSE d

NoEntry == ClipboardData(None, "", 0, "")

\* entry is the ClipboardData an append stored, sent the frames a broadcast
\* wrote, peer the node a discovery or connect step refers to.
MgrOp(op, n, full, entry, frames, peer) ==
    [op |-> op, n |-> n, full |-> full, entry |-> entry, sent |-> frames,
     peer |-> peer]

\* broadcast_clipboard(data) with the network running: the packet built for
\* the task it schedules.  _serialize_clipboard_data raises TypeError on an
\* image whose content is no longer bytes (base64.b64encode of a str), and
\* then nothing is scheduled.
BroadcastTasks(n, d, t) ==
    IF d.type = "image" /\ d.content.t # "bytes" THEN <<>>
    ELSE << NetworkPacket("clipboard_data", NodeInfo(n).name, NodeInfo(n).ip, t,
                          _serialize_clipboard_data(d)) >>

\* _broadcast_packet(packet): nothing without clients, otherwise the
\* serialized packet to every client.
WS_broadcast_packet(cl, packet) ==
    IF cl = {} THEN {}
    ELSE { [to |-> c, frame |-> _serialize_packet(packet)] : c \in cl }

\* _on_local_clipboard_change(data), under self._lock.
OnLocalClipboardChange(n, d) ==
    /\ history' = [history EXCEPT ![n] = DequeAppend(@, Stored(d), max_history)]
    /\ files' = [files EXCEPT ![n] = IF d.type = "image" THEN @ \cup {ImageFile(d)} ELSE @]
    /\ loop_tasks' = [loop_tasks EXCEPT ![n] = @ \o BroadcastTasks(n, Stored(d), now)]
    /\ hist_ret' = <<>>
    /\ mgr_op' = MgrOp("local", n, Len(history[n]) = max_history, Stored(d), {}, "")
    /\ UNCHANGED << discovered, server_clients, tvars, cvars, xvars >>

\* A receive handler that broadcasts what it stored, as the local handler
\* does.
ReceiveAndRebroadcast(n, d) ==
    /\ history' = [history EXCEPT ![n] = DequeAppend(@, Stored(d), max_history)]
    /\ files' = [files EXCEPT ![n] = IF d.type = "image" THEN @ \cup {ImageFile(d)} ELSE @]
    /\ loop_tasks' = [loop_tasks EXCEPT ![n] = @ \o BroadcastTasks(n, Stored(d), now)]
    /\ hist_ret' = <<>>
    /\ mgr_op' = MgrOp("receive", n, Len(history[n]) = max_history, Stored(d), {}, "")
    /\ UNCHANGED << discovered, server_clients, tvars, cvars, xvars >>

\* _on_network_clipboard_receive(data), under self._lock.
OnNetworkClipboardReceive(n, d) ==
    /\ history' = [history EXCEPT ![n] = DequeAppend(@, Stored(d), max_history)]
    /\ files' = [files EXCEPT ![n] = IF d.type = "image" THEN @ \cup {ImageFile(d)} ELSE @]
    /\ hist_ret' = <<>>
    /\ mgr_op' = MgrOp("receive", n, Len(history[n]) = max_history, Stored(d), {}, "")
    /\ UNCHANGED << loop_tasks, discovered, server_clients, tvars, cvars, xvars >>

\* get_history(), under self._lock: list(self.history).
GetHistory(n) ==
    /\ hist_ret' = history[n]
    /\ mgr_op' = MgrOp("get_history", n, FALSE, NoEntry, {}, "")
    /\ UNCHANGED << history, files, loop_tasks, discovered, server_clients,
                    tvars, cvars, xvars >>

\* clear_history() that also forgets which messages were processed.
ClearHistoryAndDedup(n) ==
    /\ history' = [history EXCEPT ![n] = <<>>]
    /\ files' = [files EXCEPT ![n] = {}]
    /\ hist_ret' = <<>>
    /\ mgr_op' = MgrOp("clear_history", n, FALSE, NoEntry, {}, "")
    /\ processed' = {}
    /\ processed_anon' = 0
    /\ UNCHANGED << impl, connected_devices, device_callback, now, cleanup_pc,
                    current_time, clients, conn_devices, dev_events, clip_events,
                    sent, delivered, evicted, evictions, dropped, bc_closed, last_op >>
    /\ UNCHANGED << loop_tasks, discovered, server_clients, cvars, xvars >>

\* clear_history(), under self._lock: the deque is cleared and every *.png in
\* data_dir unlinked.
ClearHistory(n) ==
    /\ history' = [history EXCEPT ![n] = <<>>]
    /\ files' = [files EXCEPT ![n] = {}]
    /\ hist_ret' = <<>>
    /\ mgr_op' = MgrOp("clear_history", n, FALSE, NoEntry, {}, "")
    /\ UNCHANGED << loop_tasks, discovered, server_clients, tvars, cvars, xvars >>

\* The event loop of a node runs the next scheduled _broadcast_packet.
BroadcastTask(n) ==
    /\ loop_tasks[n] # <<>>
    /\ loop_tasks' = [loop_tasks EXCEPT ![n] = Tail(@)]
    /\ hist_ret' = <<>>
    /\ mgr_op' = MgrOp("broadcast", n, FALSE, NoEntry,
                       WS_broadcast_packet(server_clients[n], Head(loop_tasks[n])),
                       "")
    /\ UNCHANGED << history, files, discovered, server_clients, tvars, cvars, xvars >>

\* _handle_discovery_message on node n for the announcement of node m: m
\* enters discovered_devices and 'device_discovered' goes to
\* _on_discovery_event, which passes it to the device callback.  The
\* announcement of the node itself is ignored.
HandleDiscoveryMessage(n, m) ==
    /\ discovered' = [discovered EXCEPT ![n] =
                         IF m = n THEN @
                         ELSE @ \cup {DeviceIdOf(NodeInfo(m).name, NodeInfo(m).ip)}]
    /\ hist_ret' = <<>>
    /\ mgr_op' = MgrOp("discovery", n, FALSE, NoEntry, {}, m)
    /\ UNCHANGED << history, files, loop_tasks, server_clients, tvars, cvars, xvars >>

\* connect_to_server(server_ip): its body is `pass`.
connect_to_server(n, m) ==
    /\ hist_ret' = <<>>
    /\ mgr_op' = MgrOp("connect_to_server", n, FALSE, NoEntry, {}, m)
    /\ UNCHANGED << history, files, loop_tasks, discovered, server_clients,
                    tvars, cvars, xvars >>

ManagerInit ==
    /\ history = [n \in Nodes |-> <<>>]
    /\ files = [n \in Nodes |-> {}]
    /\ hist_ret = <<>>
    /\ loop_tasks = [n \in Nodes |-> <<>>]
    /\ discovered = [n \in Nodes |-> {}]
    /\ server_clients = [n \in Nodes |-> {}]
    /\ mgr_op = MgrOp("init", "", FALSE, NoEntry, {}, "")

\* ---------------------------------------------------------- codec inputs
SeqsUpTo(S, n) == UNION { [1..k -> S] : k \in 0..n }

\* Text contents, one of them not encodable as UTF-8, and image contents of
\* every length modulo 3 and of more than one base64 quad.
TextSamples == SeqsUpTo({"h", LoneSurrogate}, MaxTextLen)
ByteSamples == SeqsUpTo({0, 77, 255}, MaxBytesLen)

ClipboardInputs ==
    { ClipboardData(PyStr(t), "text", 1, "B") : t \in TextSamples }
    \cup { ClipboardData(PyBytes(b), "image", 2, "B") : b \in ByteSamples }

\* Valid packets: the presence packets of a peer, and clipboard packets with
\* the payload _serialize_clipboard_data builds.
PacketInputs ==
    PresencePackets
    \cup { ClipPacket(PeerB, d, 3) : d \in {ClipText, ClipImage, ClipFresh} }

CodecInput(kind, v) == [kind |-> kind, v |-> v]

CodecInputs ==
    { CodecInput("clipboard", d) : d \in ClipboardInputs }
    \cup { CodecInput("payload", d) : d \in ClipboardInputs }
    \cup { CodecInput("packet", p) : p \in PacketInputs }

\* The serializer is applied: _serialize_clipboard_data to a ClipboardData,
\* _serialize_packet to a packet, and broadcast_clipboard's composition of
\* the two to a ClipboardData on its way to the wire.
CodecEncode ==
    /\ codec_pc = "input"
    /\ codec_pc' = "encoded"
    /\ codec_wire' =
         CASE codec_in.kind = "clipboard" -> _serialize_clipboard_data(codec_in.v)
           [] codec_in.kind = "packet" -> _serialize_packet(codec_in.v)
           [] OTHER -> _serialize_packet(ClipPacket(PeerB, codec_in.v, 3))
    /\ UNCHANGED << codec_in, codec_out, tvars, mvars, xvars >>

\* The deserializer is applied to what the serializer returned.
CodecDecode ==
    /\ codec_pc = "encoded"
    /\ codec_pc' = "decoded"
    /\ codec_out' =
         CASE codec_in.kind = "clipboard" -> _deserialize_clipboard_data(codec_wire)
           [] codec_in.kind = "packet" -> _deserialize_packet(codec_wire)
           [] OTHER ->
                LET r == _deserialize_packet(codec_wire)
                IN  IF r.ok THEN _deserialize_clipboard_data(r.packet.data)
                    ELSE Failed
    /\ UNCHANGED << codec_in, codec_wire, tvars, mvars, xvars >>

CodecIdle ==
    /\ codec_pc = "idle"
    /\ codec_in = CodecInput("none", None)
    /\ codec_wire = None
    /\ codec_out = Failed

\* ---------------------------------------------------------- specification
NoConnections == [c \in {} |-> {}]

NodeInit ==
    /\ impl \in {"udp", "ws"}
    /\ connected_devices = NoDevices
    /\ device_callback = FALSE
    /\ processed = {}
    /\ processed_anon = 0
    /\ now = 0
    /\ cleanup_pc = "sleep"
    /\ current_time = 0
    /\ clients = {}
    /\ conn_devices = NoConnections
    /\ dev_events = EmptyBag
    /\ clip_events = <<>>
    /\ sent = <<>>
    /\ delivered = [k \in TrackedKeys |-> 0]
    /\ evicted = [k \in TrackedKeys |-> 0]
    /\ evictions = 0
    /\ dropped = FALSE
    /\ bc_closed = {}
    /\ last_op = Op("init", "", TRUE, FALSE)

\* No broadcast task is running.
BroadcastIdle == bc = NoBroadcast

\* The UDP node after start_listening() with its socket bound, and no
\* _broadcast_packet call under way.
TransportInit ==
    NodeInit /\ BroadcastIdle /\ lc = Listening /\ snd = NoSend /\ ExtrasIdle

UDP_ReceiveAny == \E d \in UDPDatagrams : UDP_Receive(d, FALSE)
WS_AcceptAny == \E ep \in Endpoints : WS_Accept(ep)
WS_MessageAny == \E ep \in Endpoints : \E m \in WSFrames[ep] : WS_Message(ep, m, FALSE)
WS_CloseAny == \E ep \in Endpoints : WS_Close(ep)

vars == << tvars, mvars, cvars, xvars >>

Init == TransportInit /\ ManagerInit /\ CodecIdle

\* A node that runs one of the two transports, its peers and its clock.
Next ==
    \/ UDP_ReceiveAny
    \/ UDP_CleanupSample
    \/ UDP_CleanupSweep
    \/ Tick
    \/ set_device_callback
    \/ WS_AcceptAny
    \/ WS_MessageAny
    \/ WS_CloseAny

Spec == Init /\ [][Next]_vars

\* The node of either transport receiving every kind of packet, the
\* clipboard packets without a valid payload among them; the clock stands
\* still.
EpB == [peer |-> PeerB, port |-> 50001]

ExtraPackets ==
    BadClipPackets \cup UnknownTypePackets \cup SelfPackets \cup {DiscoveryWithText}

PacketDatagrams == UDPDatagrams \cup { _serialize_packet(p) : p \in ExtraPackets }

PacketFrames ==
    [ ep \in Endpoints |->
        WSFrames[ep]
        \cup (IF ep = EpB THEN { _serialize_packet(p) : p \in ExtraPackets } ELSE {}) ]

\* What the environment sent: no packet at all, a packet that names the
\* receiver itself as its sender, a packet of a type outside the protocol, a
\* clipboard packet without a valid payload, or a packet of its type.
PacketClass(wire) ==
    IF Malformed(wire) THEN "malformed"
    ELSE IF WireField(wire, "sender_name") = LocalName
            /\ WireField(wire, "sender_ip") = LocalIp THEN "self"
    ELSE IF WireField(wire, "packet_type") \notin KnownPacketTypes THEN "unknown_type"
    ELSE IF WireField(wire, "packet_type") = "clipboard_data"
            /\ InvalidPayload(WireData(wire)) THEN "bad_payload"
    ELSE WireField(wire, "packet_type")

UDP_ReceivePacket(d) == UDP_ReceiveAs(d, FALSE, PacketClass(d))
WS_MessagePacket(ep, m) == WS_MessageAs(ep, m, FALSE, PacketClass(m))

UDP_ReceivePacketAny == \E d \in PacketDatagrams : UDP_ReceivePacket(d)
WS_MessagePacketAny == \E ep \in Endpoints : \E m \in PacketFrames[ep] : WS_MessagePacket(ep, m)

NextPackets ==
    \/ UDP_ReceivePacketAny
    \/ WS_AcceptAny
    \/ WS_MessagePacketAny
    \/ WS_CloseAny
    \/ set_device_callback

SpecPackets == Init /\ [][NextPackets]_vars

InitUDP == Init /\ impl = "udp"
InitWS == Init /\ impl = "ws"

\* The WebSocket server with its broadcast task: connections are accepted,
\* register their device and close while the task is suspended in a send.
BroadcastFrames ==
    [ ep \in Endpoints |->
        { _serialize_packet(NetworkPacket("device_info", ep.peer.name, ep.peer.ip,
                                          2, DeviceInfoFull(ep.peer))) } ]

WS_MessageDeviceInfo ==
    \E ep \in Endpoints : \E m \in BroadcastFrames[ep] : WS_Message(ep, m, FALSE)

BroadcastResumeAny == \E ok \in BOOLEAN : BroadcastResume(ok)

NextBroadcast ==
    \/ WS_AcceptAny
    \/ WS_MessageDeviceInfo
    \/ WS_CloseAny
    \/ set_device_callback
    \/ BroadcastStart
    \/ BroadcastResumeAny

SpecBroadcast == InitWS /\ [][NextBroadcast]_vars

\* The UDP node from its construction: it is started and stopped, its bind
\* loop runs, and its threads take their steps.
InitStart ==
    /\ NodeInit /\ impl = "udp"
    /\ BroadcastIdle /\ lc = NotStarted /\ snd = NoSend /\ ExtrasIdle
    /\ ManagerInit /\ CodecIdle

BindAttemptAny == \E outcome \in {"ok", "in_use", "error"} : BindAttempt(outcome)

NextStart ==
    \/ start_listening
    \/ BindAttemptAny
    \/ ListenReceive
    \/ ListenExit
    \/ HeartbeatStep
    \/ CleanupStep
    \/ CleanupExit
    \/ stop_listening

SpecStart == InitStart /\ [][NextStart]_vars

\* The running UDP node broadcasting: every caller of _broadcast_packet, every
\* outcome of the socket's creation and of each sendto.
UDP_BroadcastBeginAny ==
    \E caller \in DOMAIN SendPackets(0) : \E socket_ok \in BOOLEAN :
        UDP_BroadcastBegin(caller, socket_ok)

UDP_BroadcastSendtoAny == \E ok \in BOOLEAN : UDP_BroadcastSendto(ok)

NextUDPSend == UDP_BroadcastBeginAny \/ UDP_BroadcastSendtoAny

SpecUDPSend == InitUDP /\ [][NextUDPSend]_vars

\* The same node receiving clipboard messages only: the two tracked messages,
\* as often as the bounds allow, and any number of messages sent once.

UDP_ReceiveTracked == \E p \in TrackedPackets : UDP_Receive(_serialize_packet(p), FALSE)
UDP_ReceiveFresh == UDP_Receive(_serialize_packet(FreshPacket), TRUE)
WS_MessageTracked == \E p \in TrackedPackets : WS_Message(EpB, _serialize_packet(p), FALSE)
WS_MessageFresh == WS_Message(EpB, _serialize_packet(FreshPacket), TRUE)

NextDedup ==
    \/ UDP_ReceiveTracked
    \/ UDP_ReceiveFresh
    \/ WS_Accept(EpB)
    \/ WS_MessageTracked
    \/ WS_MessageFresh
    \/ WS_Close(EpB)

SpecDedup == Init /\ [][NextDedup]_vars

\* The node with the connectionless transport, and with the persistent one.
NextUDP ==
    \/ UDP_ReceiveAny
    \/ UDP_CleanupSample
    \/ UDP_CleanupSweep
    \/ Tick
    \/ set_device_callback

NextWS ==
    \/ WS_AcceptAny
    \/ WS_MessageAny
    \/ WS_CloseAny
    \/ Tick
    \/ set_device_callback


SpecUDP == InitUDP /\ [][NextUDP]_vars
SpecWS == InitWS /\ [][NextWS]_vars

\* The codec applied to one input: serialize, then deserialize.
InitCodec ==
    /\ TransportInit /\ impl = "udp"
    /\ ManagerInit
    /\ codec_pc = "input"
    /\ codec_in \in CodecInputs
    /\ codec_wire = None
    /\ codec_out = Failed

NextCodec ==
    \/ CodecEncode
    \/ CodecDecode

SpecCodec == InitCodec /\ [][NextCodec]_vars

\* One ClipboardManager: its monitor thread, its network callback, the UI's
\* calls and its event loop, in any interleaving.  Each runs under self._lock
\* or on the loop, so each is one step.
LocalClipboardChange(n) ==
    \E d \in LocalCaptures(n) :
       /\ Len(loop_tasks[n]) < MaxTasks
       /\ OnLocalClipboardChange(n, d)

NetworkClipboardReceive(n) == \E d \in RemoteClips : OnNetworkClipboardReceive(n, d)

InitHistory == TransportInit /\ impl = "ws" /\ ManagerInit /\ CodecIdle

NextHistory ==
    \/ LocalClipboardChange("A")
    \/ NetworkClipboardReceive("A")
    \/ GetHistory("A")
    \/ ClearHistory("A")
    \/ BroadcastTask("A")

SpecHistory == InitHistory /\ [][NextHistory]_vars

\* Two ClipboardManager nodes on one network without message loss.  Each
\* node's discovery thread hears the other's announcements, its monitor
\* captures local changes, its loop runs the scheduled broadcasts.  No step
\* of either node opens a WebSocket connection (connect_to_server does
\* nothing), so nothing ever enters a node's clients and no frame is ever
\* received.
SyncCapture(n) == Len(history[n]) < MaxCaptures /\ LocalClipboardChange(n)
SyncCaptureAny == \E n \in Nodes : SyncCapture(n)
SyncBroadcastAny == \E n \in Nodes : BroadcastTask(n)
SyncDiscoveryAny == \E n \in Nodes : \E m \in Nodes : HandleDiscoveryMessage(n, m)
SyncConnectAny == \E n \in Nodes : \E m \in Nodes \ {n} : connect_to_server(n, m)
SyncGetHistoryAny == \E n \in Nodes : GetHistory(n)

NextSync ==
    \/ SyncCaptureAny
    \/ SyncBroadcastAny
    \/ SyncDiscoveryAny
    \/ SyncConnectAny
    \/ SyncGetHistoryAny

SpecSync ==
    /\ InitHistory
    /\ [][NextSync]_vars
    /\ WF_vars(SyncBroadcastAny)
    /\ WF_vars(SyncDiscoveryAny)
    /\ WF_vars(SyncConnectAny)
    /\ WF_vars(SyncCaptureAny)

\* ------------------------------------------------------------------ claims
JoinedEvents(events) ==
    { e \in BagToSet(events) : e[1] = "device_joined" }

LeftEvents(events) ==
    { e \in BagToSet(events) : e[1] = "device_left" }

\* C1, as claimed: no tracked clipboard message reaches the clipboard callback
\* more than once, whatever was handled in between.
C1_AtMostOnceEver ==
    \A k \in TrackedKeys : delivered[k] <= 1

\* C1, amended: a message reaches the callback once for each time its key
\* enters the dedup set.  A repeat is dropped while the key is in the set; the
\* key leaves the set only in an eviction pass, and no pass has run as long as
\* the set never held more than DedupCap keys, so until then every triple is
\* delivered at most once.
C1_AtMostOncePerEntry ==
    /\ \A k \in TrackedKeys :
          /\ delivered[k] = evicted[k] + (IF k \in processed THEN 1 ELSE 0)
          /\ evictions = 0 => delivered[k] <= 1
    /\ evictions > 0 => DedupLen(State.dedup) > DedupCap - EvictCount

\* C1's case: a repeat of a delivered message was just dropped, with other
\* clipboard messages handled since its delivery.
C1_Witness ==
    /\ last_op.dup
    /\ clip_events = <<>>
    /\ processed_anon > 0
    /\ \E k \in TrackedKeys : delivered[k] = 1 /\ k \in processed

\* C7: after every handled packet the dedup set holds at most DedupCap keys.
C7_DedupBounded ==
    DedupLen(State.dedup) <= DedupCap

\* C7's case: message DedupCap + 1 was handled and the eviction pass ran, in
\* the WebSocket transport.
C7_Witness ==
    /\ impl = "ws"
    /\ evictions = 1
    /\ clip_events # <<>>
    /\ DedupLen(State.dedup) = DedupCap + 1 - EvictCount

\* C2: a device leaves the registry only in a cleanup pass whose current_time
\* is more than DeviceTimeout past its last_seen (so it stays while
\* now - last_seen <= DeviceTimeout); a pass removes every such device; and,
\* with a device callback set, the pass delivers exactly one 'device_left' per
\* device it removes and nothing else.
C2_PresenceTimeout ==
    [][ LET removed == DOMAIN connected_devices \ DOMAIN connected_devices'
        IN  /\ \A id \in removed :
                  /\ last_op'.op = "cleanup_sweep"
                  /\ current_time - connected_devices[id].last_seen > DeviceTimeout
                  /\ now - connected_devices[id].last_seen > DeviceTimeout
            /\ last_op'.op = "cleanup_sweep" =>
                  /\ \A id \in DOMAIN connected_devices' :
                        current_time - connected_devices'[id].last_seen <= DeviceTimeout
                  /\ device_callback =>
                        /\ \A id \in removed :
                              CopiesIn(Event("device_left", connected_devices[id]),
                                       dev_events') = 1
                        /\ BagCardinality(dev_events') = Cardinality(removed)
      ]_vars

\* C2's case: a pass has just removed a device that was silent for longer
\* than the timeout and delivered its 'device_left', while a device seen
\* later stayed.
C2_Witness ==
    /\ impl = "udp"
    /\ last_op.op = "cleanup_sweep"
    /\ device_callback
    /\ BagCardinality(dev_events) = 1
    /\ Cardinality(LeftEvents(dev_events)) = 1
    /\ Cardinality(DOMAIN connected_devices) = 1

\* C3, as claimed: when a connection closes, every device registered over it
\* leaves the registry and, with a callback set, one 'device_left' is
\* delivered for it.
C3_DisconnectRemovesDevice ==
    [][ \A c \in clients \ clients' :
          \A id \in conn_devices[c] :
             /\ id \notin DOMAIN connected_devices'
             /\ device_callback =>
                   CopiesIn(Event("device_left", connected_devices[id]),
                            dev_events') = 1
      ]_vars

C8_LastSeenMonotone ==
    [][ \A id \in DOMAIN connected_devices \cap DOMAIN connected_devices' :
          connected_devices'[id].last_seen >= connected_devices[id].last_seen
      ]_vars

\* C10: a datagram that is no packet changes neither the registry nor the
\* dedup set, invokes no callback and sends nothing; and after it the receive
\* loop still handles a peer's packet.
C10_InvalidDatagramDropped ==
    /\ [][ (last_op'.op = "receive" /\ ~last_op'.valid) =>
              /\ UNCHANGED << connected_devices, processed, processed_anon >>
              /\ dev_events' = EmptyBag
              /\ clip_events' = <<>>
              /\ sent' = <<>>
         ]_vars
    /\ [](dropped => ENABLED UDP_Receive(_serialize_packet(Heartbeat(PeerB, 2)), FALSE))

\* C10's case: after an invalid datagram was dropped with devices registered
\* and a key in the dedup set, a later packet is handled and registers a
\* device.
C10_Witness ==
    /\ dropped
    /\ processed # {}
    /\ last_op.op = "receive"
    /\ last_op.valid
    /\ JoinedEvents(dev_events) # {}
    /\ Cardinality(DOMAIN connected_devices) = 2

\* C9: for every valid packet and every ClipboardData with a text or an image
\* content, deserializing what the serializer returned gives the input back,
\* field by field; so does the payload that went into a packet and over the
\* wire.
C9_RoundTrip ==
    codec_pc = "decoded" =>
       /\ codec_out.ok
       /\ IF codec_in.kind = "packet"
          THEN codec_out.packet = codec_in.v
          ELSE codec_out.data = codec_in.v

\* C9's case: an image of four bytes (two base64 quads, the second padded)
\* has gone through _serialize_clipboard_data and back.
C9_Witness ==
    /\ codec_pc = "decoded"
    /\ codec_in.kind = "clipboard"
    /\ codec_in.v.type = "image"
    /\ Len(codec_in.v.content.v) = 4
    /\ codec_out.ok

\* C6: the history never holds more than max_history entries; an append to a
\* full history drops exactly the earliest entry and keeps the others in
\* their order, followed by the new one; get_history changes nothing.
C6_HistoryBounded ==
    /\ [](\A n \in Nodes : Len(history[n]) <= max_history)
    /\ [][ \A n \in Nodes :
             /\ (mgr_op'.op \in {"local", "receive"} /\ mgr_op'.n = n) =>
                   history'[n] = (IF Len(history[n]) = max_history
                                  THEN Tail(history[n]) ELSE history[n])
                                 \o << mgr_op'.entry >>
             /\ (mgr_op'.op = "get_history" /\ mgr_op'.n = n) =>
                   hist_ret' = history[n] /\ history'[n] = history[n]
         ]_vars

\* C6's case: a network receive has just been appended to a full history.
C6_Witness ==
    /\ mgr_op.op = "receive"
    /\ mgr_op.full
    /\ Len(history["A"]) = max_history
    /\ history["A"][max_history] = mgr_op.entry

\* C4, as claimed: once the two nodes have discovered each other, a text
\* captured on A is eventually in B's history.
C4_LocalChangeReachesPeer ==
    ( /\ discovered["A"] = {DeviceIdOf(PeerB.name, PeerB.ip)}
      /\ discovered["B"] = {DeviceIdOf(LocalName, LocalIp)}
      /\ \E i \in 1..Len(history["A"]) : history["A"][i] = LocalText("A") )
    ~> (\E i \in 1..Len(history["B"]) : history["B"][i] = LocalText("A"))

\* ------------------------------------------------------------------ C11
\* The step of either transport that receives packet p.
Receives(p) ==
    \/ UDP_ReceivePacket(_serialize_packet(p))
    \/ WS_MessagePacket(EpB, _serialize_packet(p))

\* A receive step that leaves the node as it was: registry and dedup set
\* unchanged, no callback invoked, nothing sent.
Ignored ==
    /\ UNCHANGED << connected_devices, processed, processed_anon >>
    /\ dev_events' = EmptyBag
    /\ clip_events' = <<>>
    /\ sent' = <<>>

\* C11 as stated: whenever a packet whose packet_type is none of the five
\* protocol types is received, _deserialize_packet returns the error value
\* for it, as it does for a datagram that lacks a required field.
C11_UnknownTypeFailsDecode ==
    [][ \A p \in UnknownTypePackets :
            Receives(p) => _deserialize_packet(_serialize_packet(p)) = Failed ]_vars

\* C11 as the code has it: _deserialize_packet returns the packet whatever
\* its packet_type is (only a missing member makes it fail), and it is
\* _handle_packet that ignores a packet of an unknown type: registry and
\* dedup set unchanged, no callback, nothing sent.
C11_UnknownTypeIgnoredByHandler ==
    [][ \A p \in UnknownTypePackets :
            Receives(p) =>
                /\ _deserialize_packet(_serialize_packet(p)) = [ok |-> TRUE, packet |-> p]
                /\ \A f \in PacketFields :
                       _deserialize_packet(Drop(_serialize_packet(p), f)) = Failed
                /\ Ignored ]_vars

\* A packet of an unknown type has been received by a node that has devices
\* in its registry and a device callback.
C11_Witness ==
    /\ last_op.op \in {"receive", "message"}
    /\ last_op.tag = "unknown_type"
    /\ connected_devices # NoDevices
    /\ device_callback
    /\ dev_events = EmptyBag /\ clip_events = <<>> /\ sent = <<>>

\* ------------------------------------------------------------------ C12
\* C12: a clipboard_data packet whose payload is absent, lacks content, type,
\* timestamp or device_name, names a type other than text and image, or
\* carries image content that is not valid base64, is dropped by both
\* transports: the clipboard callback is not invoked and no key is added to
\* the dedup set.
C12_InvalidPayloadDropped ==
    [][ \A p \in { q \in BadClipPackets : InvalidPayload(q.data) } :
            Receives(p) =>
                /\ clip_events' = <<>>
                /\ UNCHANGED << processed, processed_anon >> ]_vars

ReadablePresenceData(data) ==
    \/ data.t \in {"None", "dict"}
    \/ data.t = "str" /\ data.v = <<>>

\* C18 as stated: in the UDP transport every device_discovery packet from
\* another device makes the receiver send exactly one announcement, and a
\* packet of any other kind makes it send nothing.
C18_EveryDiscoveryAnswered ==
    [][ \A d \in PacketDatagrams :
            UDP_ReceivePacket(d) =>
                sent' = IF PacketClass(d) = "device_discovery"
                        THEN <<AnnouncePacket(now)>> ELSE <<>> ]_vars

\* C18 as the code has it: a device_discovery packet from another device
\* whose data is absent, empty or a dict makes the receiver send exactly one
\* announcement; a discovery packet with any other data raises before the
\* reply and sends nothing, like every packet of another kind (announcement,
\* heartbeat, clipboard data, unknown type, own packet, no packet).
C18_OneAnnouncePerDiscovery ==
    [][ \A d \in PacketDatagrams :
            UDP_ReceivePacket(d) =>
                sent' = IF /\ PacketClass(d) = "device_discovery"
                           /\ ReadablePresenceData(WireData(d))
                        THEN <<AnnouncePacket(now)>> ELSE <<>> ]_vars

\* A discovery request of a known device has been answered with one
\* announcement.
C18_Witness ==
    /\ impl = "udp"
    /\ last_op.op = "receive"
    /\ last_op.tag = "device_discovery"
    /\ sent = <<AnnouncePacket(now)>>
    /\ dev_events = EmptyBag
    /\ connected_devices # NoDevices

\* ------------------------------------------------------------------ C19
\* C19: ClipboardManager._on_network_clipboard_receive never broadcasts: a
\* clipboard payload delivered from the network is appended to the history
\* (an image is saved to its file), no broadcast is scheduled and no packet
\* is sent.
C19_ReceiveNeverBroadcasts ==
    [][ \A n \in Nodes :
            (mgr_op'.op = "receive" /\ mgr_op'.n = n) =>
                /\ Len(history'[n]) > 0
                /\ history'[n][Len(history'[n])] = mgr_op'.entry
                /\ mgr_op'.entry \in { Stored(d) : d \in RemoteClips }
                /\ loop_tasks' = loop_tasks
                /\ mgr_op'.sent = {}
                /\ sent' = sent ]_vars

\* A received image has been stored while no broadcast is scheduled.
C19_Witness ==
    /\ mgr_op.op = "receive"
    /\ mgr_op.entry = Stored(ClipImage)
    /\ ImageFile(ClipImage) \in files["A"]
    /\ Len(history["A"]) >= 2
    /\ loop_tasks["A"] = <<>>

\* ------------------------------------------------------------------ C20
\* The clipboard_data packet that carries a captured payload: its text, or
\* the base64 text of its image bytes.
CapturePacket(n, d, t) ==
    NetworkPacket("clipboard_data", NodeInfo(n).name, NodeInfo(n).ip, t,
                  PyDict([type |-> d.type, timestamp |-> d.timestamp,
                          device_name |-> d.device_name,
                          content |-> IF d.type = "image"
                                      THEN PyStr(b64encode(d.content.v))
                                      ELSE d.content]))

\* C20: for every local capture, text or image, handled by
\* _on_local_clipboard_change, the payload is appended to the history and a
\* clipboard_data packet carrying the captured content (for an image the
\* base64 text of the captured bytes) is handed to the transport's broadcast.
C20_LocalCaptureBroadcast ==
    [][ \A n \in Nodes : \A d \in LocalCaptures(n) :
            OnLocalClipboardChange(n, d) =>
                /\ history'[n][Len(history'[n])].timestamp = d.timestamp
                /\ loop_tasks'[n] = loop_tasks[n] \o << CapturePacket(n, d, now) >> ]_vars

\* ------------------------------------------------------------------ C13
\* The step in which the broadcast task ends.
BroadcastEnds == bc.pc = "send" /\ bc'.pc \in {"returned", "raised"}

\* C13: when a send to a connection fails during _broadcast_packet, the
\* connection is removed from the client set, a 'device_left' event is fired
\* for its device and the device is no longer in the registry.
C13_FailedSendRemovesDevice ==
    [][ BroadcastEnds =>
            \A c \in bc'.failed :
                /\ c \notin clients'
                /\ c \in DOMAIN conn_devices =>
                      \A id \in conn_devices[c] :
                          /\ id \notin DOMAIN connected_devices'
                          /\ device_callback =>
                                BagIn(Event("device_left", connected_devices[id]),
                                      dev_events') ]_vars

\* ------------------------------------------------------------------ C14
\* C14: every connection that stays open for the whole broadcast and whose
\* own send does not fail receives the packet, whatever happens to the other
\* connections while the task is suspended.
C14_OpenConnectionsReceive ==
    [][ BroadcastEnds =>
            \A c \in (bc.start \ bc_closed') \ bc'.failed : c \in bc'.got ]_vars

\* ------------------------------------------------------------------ C15
\* C15: when all ten bind attempts of UDPClipboardNetwork hit "address in
\* use", the start fails: the failure is reported to the caller of
\* start_listening, _listening is not left True, and neither the heartbeat
\* nor the cleanup loop keeps running.
C15_BindFailureStopsNode ==
    (lc.listen = "failed" /\ lc.attempts = BindAttempts) =>
        /\ lc.start = "raised"
        /\ ~lc.listening
        /\ lc.hb # "running"
        /\ lc.cleanup # "running"

\* ------------------------------------------------------------------ C16
\* C16: in the UDP transport's _broadcast_packet a failing sendto is
\* swallowed: once the broadcast socket exists, every (address, port) pair
\* is attempted, in order, whichever of them fail, and no exception reaches
\* the caller (broadcast_clipboard, announce_device, discover_devices or the
\* heartbeat loop), also when the socket could not be created.
C16_SendFailureSwallowed ==
    /\ ~snd.raised
    /\ snd.pc = "returned" /\ snd.socket => snd.attempted = Destinations(lc.port)
    /\ snd.pc = "sending" =>
          snd.attempted = SubSeq(Destinations(lc.port), 1, Len(snd.attempted))
    /\ \A d \in snd.failed : \E i \in 1..Len(snd.attempted) : snd.attempted[i] = d

\* broadcast_clipboard has returned after a broadcast whose first and another
\* sendto failed.
C16_Witness ==
    /\ snd.pc = "returned"
    /\ snd.caller = "broadcast_clipboard"
    /\ Destinations(lc.port)[1] \in snd.failed
    /\ Cardinality(snd.failed) = MaxSendFailures
    /\ Len(snd.attempted) = 3 * Cardinality(BroadcastPorts)
    /\ sent = << ClipPacket(Local, ClipImage, now) >>


\* ------------------------------------------ ClipboardManager device events
\* add_device_callback(callback): the callback is appended to the list.
add_device_callback(kind) ==
    /\ Len(subscribers.callbacks) < MaxSubscribers
    /\ subscribers' = [subscribers EXCEPT !.callbacks = Append(@, kind)]
    /\ UNCHANGED << tvars, mvars, cvars, bc, lc, snd, stop_call, hb_peer, disc_net, hvars >>

\* The loop of _on_device_event from position i on, where every raising
\* subscriber ends the loop and the exception leaves the method.
RECURSIVE DeviceEventUncaught(_, _, _)
DeviceEventUncaught(callbacks, i, called) ==
    IF i > Len(callbacks) THEN [called |-> called, escaped |-> FALSE]
    ELSE IF callbacks[i] = "raises"
         THEN [called |-> Append(called, i), escaped |-> TRUE]
         ELSE DeviceEventUncaught(callbacks, i + 1, Append(called, i))

\* `for callback in self._device_callbacks` from position i on: each callback
\* is called inside try/except Exception, so a raising one is printed and the
\* loop goes on.
RECURSIVE _on_device_event(_, _, _)
_on_device_event(callbacks, i, called) ==
    IF i > Len(callbacks) THEN [called |-> called, escaped |-> FALSE]
    ELSE _on_device_event(callbacks, i + 1, Append(called, i))

\* The events a transport hands to its device callback.
DeviceEvents ==
    { Event(kind, DeviceInfo(p.name, p.ip, 0, "Unknown")) :
        kind \in {"device_joined", "device_left"}, p \in Peers }

\* The transport calls the manager's callback with one event.
OnDeviceEvent(ev) ==
    /\ LET r == _on_device_event(subscribers.callbacks, 1, <<>>)
       IN subscribers' = [subscribers EXCEPT !.event = ev, !.called = r.called,
                                             !.escaped = r.escaped]
    /\ UNCHANGED << tvars, mvars, cvars, bc, lc, snd, stop_call, hb_peer, disc_net, hvars >>

add_device_callbackAny == \E kind \in {"ok", "raises"} : add_device_callback(kind)
OnDeviceEventAny == \E ev \in DeviceEvents : OnDeviceEvent(ev)

NextDeviceEvents == add_device_callbackAny \/ OnDeviceEventAny

SpecDeviceEvents == InitWS /\ [][NextDeviceEvents]_vars

\* ------------------------------------------------------------------ C21
\* C21: _on_device_event calls every registered device subscriber, in
\* registration order, for each event: a subscriber that raises neither keeps
\* the subscribers registered after it from being called nor lets the
\* exception reach the transport that delivered the event.
C21_EverySubscriberCalled ==
    [][OnDeviceEventAny =>
          /\ subscribers'.called = [i \in 1..Len(subscribers.callbacks) |-> i]
          /\ ~subscribers'.escaped
          /\ subscribers'.callbacks = subscribers.callbacks]_vars

\* An event went to three subscribers of which the first raises.
C21_Witness ==
    /\ subscribers.event \in DeviceEvents
    /\ subscribers.callbacks = << "raises", "ok", "ok" >>
    /\ subscribers.called = << 1, 2, 3 >>
    /\ ~subscribers.escaped


\* ------------------------------------- a device callback that raises (UDP)
\* One pass of _cleanup_devices in which the device callback raises: the
\* devices of `inactive_devices` up to the one whose callback raised are
\* deleted (the del precedes the call), the exception leaves the for loop and
\* the with block, and the except of the while body prints it and breaks.
\* The registry keeps no order here, so every non-empty part of the inactive
\* devices can be the part handled before the exception.
CleanupPassRaising(st, t) ==
    { Result(Without(st.devices, handled), st.dedup,
             SetToBag({ Event("device_left", st.devices[i]) : i \in handled }),
             <<>>, <<>>, {}, FALSE) :
        handled \in (SUBSET InactiveDevices(st.devices, t)) \ {{}} }

\* The sweep of the cleanup thread with a raising callback: the thread ends.
UDP_CleanupSweepRaising ==
    /\ impl = "udp"
    /\ lc.cleanup = "running"
    /\ cleanup_pc = "sweep"
    /\ device_callback
    /\ cleanup_pc' = "sleep"
    /\ current_time' = 0
    /\ \E res \in CleanupPassRaising(State, current_time) :
          CommitState(res, NoKey, FALSE, Op("cleanup_sweep", "raised", FALSE, FALSE))
    /\ lc' = [lc EXCEPT !.cleanup = "exited"]
    /\ UNCHANGED << impl, bc_closed, device_callback, now, clients, conn_devices >>
    /\ UNCHANGED << mvars, cvars, bc, snd, evars, hvars >>

UDP_ReceivePresence == \E p \in PresencePackets : UDP_Receive(_serialize_packet(p), FALSE)

NextCallbackRaise ==
    \/ UDP_ReceivePresence
    \/ CleanupStep
    \/ UDP_CleanupSweepRaising
    \/ Tick
    \/ set_device_callback

SpecCallbackRaise == InitUDP /\ [][NextCallbackRaise]_vars

\* ------------------------------------------------------------------ C22
\* C22: a device callback that raises during a cleanup pass of the UDP
\* transport does not stop the cleanup loop: the loop keeps running and the
\* other devices found inactive in that pass are removed as well.
C22_CleanupSurvivesCallback ==
    [][UDP_CleanupSweepRaising =>
          /\ lc'.cleanup = "running"
          /\ InactiveDevices(connected_devices, current_time)
                \cap DOMAIN connected_devices' = {}]_vars


\* ------------------------------- UDPClipboardNetwork.stop_listening, by steps
\* The threads stop_listening() joins, in the order of its for loop.
Threads == << "listen", "hb", "cleanup" >>

\* A join that waits for the thread however long it takes.
JoinForever(alive) == IF alive THEN {} ELSE {"ended"}

\* `if thread and thread.is_alive(): thread.join(timeout=5)` and the test
\* after it: the call comes back, with the thread ended or still alive.
join(alive) == IF alive THEN {"timed_out"} ELSE {"ended"}

\* self._listening = False
StopSetFlag ==
    /\ impl = "udp"
    /\ stop_call.pc \in {"idle", "returned"}
    /\ lc' = [lc EXCEPT !.listening = FALSE]
    /\ stop_call' = [NoStop EXCEPT !.pc = "sockets"]
    /\ Output(<<>>, Op("stop_listening", "flag", TRUE, FALSE))
    /\ UNCHANGED << bc, snd, subscribers, hb_peer, disc_net, hvars >>

\* Both sockets are closed inside try/except and set to None.
StopCloseSockets ==
    /\ stop_call.pc = "sockets"
    /\ stop_call' = [stop_call EXCEPT !.pc = "join", !.i = 1, !.sockets = "closed"]
    /\ Output(<<>>, Op("stop_listening", "sockets", TRUE, FALSE))
    /\ UNCHANGED << bc, lc, snd, subscribers, hb_peer, disc_net, hvars >>

\* One pass of `for thread in [...]`: a thread still alive after the join is
\* reported, and the loop goes on.
StopJoin ==
    /\ stop_call.pc = "join"
    /\ \E outcome \in join(Alive(lc[Threads[stop_call.i]])) :
          stop_call' = [stop_call EXCEPT
                           !.warned = IF outcome = "timed_out"
                                      THEN @ \cup {Threads[stop_call.i]} ELSE @,
                           !.i = IF @ = Len(Threads) THEN 0 ELSE @ + 1,
                           !.pc = IF stop_call.i = Len(Threads)
                                  THEN "returned" ELSE "join"]
    /\ Output(<<>>, Op("stop_listening", "join", TRUE, FALSE))
    /\ UNCHANGED << bc, lc, snd, subscribers, hb_peer, disc_net, hvars >>

\* A heartbeat thread of an earlier start: it tests the same self._listening.
StaleHeartbeatStep ==
    /\ lc.stale.hb > 0
    /\ IF lc.listening
       THEN /\ UNCHANGED lc
            /\ Output(<< Heartbeat(Local, now) >>, Op("heartbeat", "stale", TRUE, FALSE))
       ELSE /\ lc' = [lc EXCEPT !.stale.hb = @ - 1]
            /\ Output(<<>>, Op("heartbeat", "stale", FALSE, FALSE))
    /\ UNCHANGED << bc, snd, evars, hvars >>

\* A cleanup thread of an earlier start.
StaleCleanupStep ==
    /\ lc.stale.cleanup > 0
    /\ IF lc.listening
       THEN /\ Commit(_cleanup_devices(State, now), NoKey, FALSE,
                      Op("cleanup_sweep", "stale", TRUE, FALSE))
            /\ UNCHANGED << impl, bc_closed, device_callback, now, cleanup_pc,
                            current_time, clients, conn_devices >>
       ELSE /\ lc' = [lc EXCEPT !.stale.cleanup = @ - 1]
            /\ Output(<<>>, Op("cleanup_exit", "stale", TRUE, FALSE))
            /\ UNCHANGED << bc, snd, evars, hvars >>

\* A listen thread of an earlier start: it receives from whatever self._socket
\* is when it comes back to its loop, and ends when the flag is false or the
\* socket it uses was closed.
StaleListenReceive ==
    /\ lc.stale.listen > 0
    /\ lc.listening
    /\ lc.listen = "bound"
    /\ UDP_Receive(_serialize_packet(Heartbeat(PeerB, 0)), FALSE)

StaleListenExit ==
    /\ lc.stale.listen > 0
    /\ lc' = [lc EXCEPT !.stale.listen = @ - 1]
    /\ Output(<<>>, Op("listen_exit", "stale", TRUE, FALSE))
    /\ UNCHANGED << bc, snd, evars, hvars >>

\* start_listening() by the caller of stop_listening(), between its calls.
StartCall == stop_call.pc \in {"idle", "returned"} /\ start_listening

BindAttemptOnce == \E outcome \in {"ok", "error"} : BindAttempt(outcome)

StopStep == StopCloseSockets \/ StopJoin

NextStop ==
    \/ StartCall
    \/ BindAttemptOnce
    \/ ListenExit
    \/ HeartbeatStep
    \/ CleanupExit
    \/ StopSetFlag
    \/ StopCloseSockets
    \/ StopJoin
    \/ StaleHeartbeatStep
    \/ StaleCleanupStep
    \/ StaleListenReceive
    \/ StaleListenExit

\* The caller of stop_listening() keeps running; the node's threads may take
\* any time for their next step.
SpecStop == InitStart /\ [][NextStop]_vars /\ WF_vars(StopStep)

\* ------------------------------------------------------------------ C23
\* C23: stop_listening always terminates: it sets the running flag false,
\* closes both sockets and returns after the bounded joins, whether or not
\* the receive, heartbeat and cleanup threads have exited.
C23_StopTerminates ==
    /\ [][stop_call.pc # "returned" /\ stop_call'.pc = "returned" =>
             ~lc'.listening /\ stop_call'.sockets = "closed"]_vars
    /\ (stop_call.pc = "sockets") ~> (stop_call.pc = "returned")

\* stop_listening() has returned although the heartbeat thread was still
\* alive after its join.
C23_Witness ==
    /\ stop_call.pc = "returned"
    /\ "hb" \in stop_call.warned
    /\ lc.hb = "running"
    /\ ~lc.listening


\* ------------------------------------------------------------------ C24
\* C24: after any sequence of start_listening and stop_listening calls on
\* one UDP node, at most one receive loop, one heartbeat loop and one
\* cleanup loop of the node are active.
C24_OneLoopOfEachKind ==
    lc.listening =>
        \A t \in DOMAIN lc.stale :
            lc.stale[t] + (IF Alive(lc[t]) THEN 1 ELSE 0) <= 1


\* ----------------------------------------- the UDP registry and its callers
\* broadcast_clipboard(data), announce_device() and discover_devices(): each
\* builds its packet and hands it to _broadcast_packet.
UDP_Call(caller) ==
    /\ impl = "udp"
    /\ caller # "_send_heartbeat"
    /\ Output(<< SendPackets(now)[caller] >>, Op(caller, "", TRUE, FALSE))
    /\ UNCHANGED xvars

\* get_connected_devices(): a copy of the registry's values, under the lock.
UDP_GetConnectedDevices ==
    /\ impl = "udp"
    /\ Output(<<>>, Op("get_connected_devices", "", TRUE, FALSE))
    /\ UNCHANGED xvars

UDP_CallAny == \E caller \in DOMAIN SendPackets(0) : UDP_Call(caller)

NextRegistry ==
    \/ UDP_ReceiveAny
    \/ UDP_CleanupSample
    \/ UDP_CleanupSweep
    \/ Tick
    \/ set_device_callback
    \/ UDP_CallAny
    \/ UDP_GetConnectedDevices

SpecRegistry == InitUDP /\ [][NextRegistry]_vars

\* ------------------------------------------------------------------ C25
\* C25: in the UDP transport a device id leaves the registry only in a
\* cleanup pass that finds current_time - last_seen > timeout; no packet, no
\* broadcast/announce/discover call and no get_connected_devices call removes
\* a device, and an id that is present has one entry, stored under its own
\* name@ip.
C25_OnlyCleanupRemoves ==
    /\ [][\A id \in DOMAIN connected_devices :
             id \notin DOMAIN connected_devices' =>
                /\ UDP_CleanupSweep
                /\ current_time - connected_devices[id].last_seen > DeviceTimeout]_vars
    /\ [](\A id \in DOMAIN connected_devices :
             id = DeviceIdOf(connected_devices[id].name,
                             connected_devices[id].ip_address))

\* A sweep has removed B and kept C, which was seen later.
C25_Witness ==
    /\ last_op.op = "cleanup_sweep"
    /\ Cardinality(BagToSet(dev_events)) = 1
    /\ DOMAIN connected_devices = {DeviceIdOf(PeerC.name, PeerC.ip)}


\* --------------------------------- ClipboardManager over its transport (WS)
\* _handle_client receives a frame on the manager's transport: a clipboard
\* message that passes the duplicate check goes to the clipboard callback,
\* which is _on_network_clipboard_receive (start_listening's argument).
ManagerMessage(n, ep, message, fresh) ==
    /\ impl = "ws"
    /\ ClientId(ep) \in clients
    /\ MaySend(message, fresh)
    /\ \E res \in WS_on_message(State, message, fresh) :
          /\ CommitState(res, DatagramKey(message), fresh,
                         Op("message", ClientId(ep), ~Malformed(message), res.dup))
          /\ conn_devices' = [conn_devices EXCEPT ![ClientId(ep)] = @ \cup res.upserted]
          /\ IF res.clip_events = <<>>
             THEN UNCHANGED << history, files, mgr_op >>
             ELSE LET d == res.clip_events[1]
                  IN  /\ history' = [history EXCEPT
                                        ![n] = DequeAppend(@, Stored(d), max_history)]
                      /\ files' = [files EXCEPT
                                      ![n] = IF d.type = "image"
                                             THEN @ \cup {ImageFile(d)} ELSE @]
                      /\ mgr_op' = MgrOp("receive", n, Len(history[n]) = max_history,
                                         Stored(d), {}, "")
    /\ hist_ret' = <<>>
    /\ UNCHANGED << impl, bc_closed, device_callback, now, cleanup_pc, current_time,
                    clients >>
    /\ UNCHANGED << loop_tasks, discovered, server_clients, cvars, xvars >>

ManagerMessageTracked ==
    \E p \in TrackedPackets : ManagerMessage("A", EpB, _serialize_packet(p), FALSE)
\* Messages that are sent once arrive while the dedup set is within two
\* entries of its eviction pass.
ManagerMessageFresh ==
    /\ DedupLen(State.dedup) >= DedupCap - 2
    /\ ManagerMessage("A", EpB, _serialize_packet(FreshPacket), TRUE)
ManagerMessageDeviceInfo ==
    \E m \in BroadcastFrames[EpB] : ManagerMessage("A", EpB, m, FALSE)

NextManagerTransport ==
    \/ WS_Accept(EpB)
    \/ WS_Close(EpB)
    \/ set_device_callback
    \/ ManagerMessageTracked
    \/ ManagerMessageFresh
    \/ ManagerMessageDeviceInfo
    \/ ClearHistory("A")

\* The manager's node after it has received DedupCap - 2 messages that are
\* not sent again, and its history was cleared: the dedup set is two entries
\* short of its eviction pass.
InitManagerTransport ==
    /\ impl = "ws"
    /\ connected_devices = NoDevices
    /\ device_callback = FALSE
    /\ processed = {}
    /\ processed_anon = DedupCap - 2
    /\ now = 0
    /\ cleanup_pc = "sleep"
    /\ current_time = 0
    /\ clients = {}
    /\ conn_devices = NoConnections
    /\ dev_events = EmptyBag
    /\ clip_events = <<>>
    /\ sent = <<>>
    /\ delivered = [k \in TrackedKeys |-> 0]
    /\ evicted = [k \in TrackedKeys |-> 0]
    /\ evictions = 0
    /\ dropped = FALSE
    /\ bc_closed = {}
    /\ last_op = Op("init", "", TRUE, FALSE)
    /\ BroadcastIdle /\ lc = Listening /\ snd = NoSend /\ ExtrasIdle
    /\ ManagerInit /\ CodecIdle

SpecManagerTransport == InitManagerTransport /\ [][NextManagerTransport]_vars

\* ------------------------------------------------------------------ C26
\* C26: history is independent of dedup and device state.  clear_history
\* empties the history and leaves the transport's dedup set and device
\* registry unchanged, so a message delivered before the clear is still
\* suppressed when it arrives again after it; and a step that delivers no
\* clipboard message (a device join or leave among them) leaves the history
\* as it is, while a delivering step, evicting or not, appends its one entry.
C26_HistoryIndependent ==
    [][/\ ClearHistory("A") =>
             /\ history'["A"] = <<>>
             /\ UNCHANGED << processed, processed_anon, connected_devices, conn_devices >>
       /\ \A p \in TrackedPackets :
             /\ KeyOf(p) \in processed
             /\ ManagerMessage("A", EpB, _serialize_packet(p), FALSE)
             => clip_events' = <<>> /\ history' = history
       /\ ~ClearHistory("A") =>
             history'["A"] = IF clip_events' = <<>> THEN history["A"]
                             ELSE DequeAppend(history["A"], Stored(clip_events'[1]),
                                              max_history)]_vars

\* The text message was delivered, the history cleared, and the same message
\* then dropped as a duplicate: the history is still empty.
C26_Witness ==
    /\ history["A"] = <<>>
    /\ mgr_op.op = "clear_history"
    /\ last_op.op = "message" /\ last_op.dup
    /\ delivered[KeyOf(TextPacket)] = 1
    /\ KeyOf(TextPacket) \in processed


\* ------------------------------------------- presence packets received twice
\* What tells one presence packet from another, and the mark of a packet that
\* is handled again right after it was handled.
PacketTag(p) == p.packet_type \o ":" \o p.sender_name \o ":" \o ToString(p.timestamp)
Again(tag) == tag \o "+"

\* The fan-out of _broadcast_packet delivers a packet once per address and
\* port that reaches the receiver's socket: the receive thread handles it,
\* and may handle it again as its next datagram.
UDP_ReceivePresenceTagged(p) ==
    UDP_ReceiveAs(_serialize_packet(p), FALSE,
                  IF last_op.tag \in {PacketTag(p), Again(PacketTag(p))}
                  THEN Again(PacketTag(p)) ELSE PacketTag(p))

UDP_ReceivePresenceAny == \E p \in PresencePackets : UDP_ReceivePresenceTagged(p)

NextPresence ==
    \/ UDP_ReceivePresenceAny
    \/ UDP_CleanupSample
    \/ UDP_CleanupSweep
    \/ Tick
    \/ set_device_callback

SpecPresence == InitUDP /\ [][NextPresence]_vars

\* ------------------------------------------------------------------ C27
\* C27: presence upserts are idempotent in the UDP transport: handling the
\* same announce, discovery or heartbeat packet again leaves the registry as
\* the first handling left it and delivers no further 'device_joined'.
C27_PresenceIdempotent ==
    [][\A p \in PresencePackets :
          /\ last_op.tag \in {PacketTag(p), Again(PacketTag(p))}
          /\ UDP_ReceivePresenceTagged(p)
          => /\ connected_devices' = connected_devices
             /\ dev_events' = EmptyBag]_vars

\* C's discovery request was handled twice in a row by a node that has a
\* device callback and knows B: the second handling answered as well.
C27_Witness ==
    /\ device_callback
    /\ last_op.tag = Again(PacketTag(NetworkPacket("device_discovery", PeerC.name, PeerC.ip, 2, None)))
    /\ DOMAIN connected_devices = {DeviceIdOf(PeerB.name, PeerB.ip),
                                   DeviceIdOf(PeerC.name, PeerC.ip)}
    /\ sent # <<>>


\* ------------------------------------------- a peer that sends heartbeats
\* time.sleep(10) in _send_heartbeat.
HeartbeatInterval == 10

\* How far the receiver's clock runs in a behaviour, and by how much the
\* peer's clock may be behind (positive) or ahead of (negative) it.
MaxClock == 22
ClockOffsets == {-20, 0, 20}

\* The peer starts its heartbeat thread; its first packet is due at once.
PeerStart(offset) ==
    /\ impl = "udp"
    /\ hb_peer.pc = "idle"
    /\ hb_peer' = [pc |-> "started", offset |-> offset, due |-> now]
    /\ Output(<<>>, Op("peer_start", "", TRUE, FALSE))
    /\ UNCHANGED << bc, lc, snd, subscribers, stop_call, disc_net, hvars >>

\* The peer's heartbeat, stamped with the peer's time.time(), is handled by
\* the receive thread at the instant it is due; the next one is due one
\* interval later.
PeerHeartbeat ==
    /\ impl = "udp"
    /\ hb_peer.pc # "idle"
    /\ now = hb_peer.due
    /\ \E res \in _listen_loop(State,
                    _serialize_packet(Heartbeat(PeerB, now - hb_peer.offset)), FALSE) :
          CommitState(res, NoKey, FALSE, Op("receive", "heartbeat", TRUE, res.dup))
    /\ hb_peer' = [hb_peer EXCEPT !.pc = "beating", !.due = @ + HeartbeatInterval]
    /\ UNCHANGED << impl, bc_closed, device_callback, now, cleanup_pc, current_time,
                    clients, conn_devices >>
    /\ UNCHANGED << mvars, cvars, bc, lc, snd, subscribers, stop_call, disc_net, hvars >>

\* The receiver's clock advances, never past a heartbeat that is due.
ClockTick ==
    /\ now < MaxClock
    /\ hb_peer.pc # "idle" => now < hb_peer.due
    /\ now' = now + 1
    /\ Quiet(Op("tick", "", TRUE, FALSE))
    /\ UNCHANGED << impl, bc_closed, connected_devices, device_callback, processed,
                    processed_anon, cleanup_pc, current_time, clients, conn_devices >>

PeerStartAny == \E offset \in ClockOffsets : PeerStart(offset)

NextHeartbeat ==
    \/ PeerStartAny
    \/ PeerHeartbeat
    \/ ClockTick
    \/ UDP_CleanupSample
    \/ UDP_CleanupSweep
    \/ set_device_callback

SpecHeartbeat == InitUDP /\ [][NextHeartbeat]_vars

\* ------------------------------------------------------------------ C28
\* C28: a peer whose heartbeat, sent every 10 time units, is handled by the
\* receiver every time is never removed by the cleanup loop and never gets a
\* 'device_left' event, whatever the offset between the sender's clock, which
\* stamps the packet, and the receiver's clock, which the cleanup pass reads.
C28_HeartbeatKeepsPeer ==
    hb_peer.pc = "beating" =>
        /\ DeviceIdOf(PeerB.name, PeerB.ip) \in DOMAIN connected_devices
        /\ \A e \in BagToSet(dev_events) : e[1] # "device_left"


\* ------------------------------------ discovery of the persistent transport
\* A datagram on the discovery port.  Every one of them is an announcement
\* {type: 'websocket_clipboard_device', device_name, device_ip, ...} of its
\* sender; asked tells whether the sender's discover_devices() sent it or the
\* timer of its _discovery_loop.
Announcement(from, to, asked) == [from |-> from, to |-> to, asked |-> asked]

\* _announce_device(): the announcement is broadcast to the discovery port.
_announce_device(n, asked) == { Announcement(n, m, asked) : m \in Nodes }

\* ClipboardManager.discover_devices() -> network.discover_devices() ->
\* discovery.trigger_discovery() -> _announce_device().
discover_devices(n) ==
    /\ disc_net' = disc_net \cup _announce_device(n, TRUE)
    /\ hist_ret' = <<>>
    /\ mgr_op' = MgrOp("discover_devices", n, FALSE, NoEntry, {}, "")
    /\ UNCHANGED << history, files, loop_tasks, discovered, server_clients >>
    /\ UNCHANGED << tvars, cvars, bc, lc, snd, subscribers, stop_call, hb_peer, hvars >>

\* _discovery_loop: the announce interval has passed.
PeriodicAnnounce(n) ==
    /\ disc_net' = disc_net \cup _announce_device(n, FALSE)
    /\ hist_ret' = <<>>
    /\ mgr_op' = MgrOp("announce", n, FALSE, NoEntry, {}, "")
    /\ UNCHANGED << history, files, loop_tasks, discovered, server_clients >>
    /\ UNCHANGED << tvars, cvars, bc, lc, snd, subscribers, stop_call, hb_peer, hvars >>

\* _discovery_loop receives a datagram and _handle_discovery_message handles
\* it: one from the node's own address is ignored, any other puts its sender
\* into discovered_devices.  Nothing is sent.
DiscoveryReceive(msg) ==
    /\ msg \in disc_net
    /\ disc_net' = disc_net \ {msg}
    /\ discovered' = [discovered EXCEPT ![msg.to] =
                         IF NodeInfo(msg.from).ip = NodeInfo(msg.to).ip THEN @
                         ELSE @ \cup {DeviceIdOf(NodeInfo(msg.from).name,
                                                 NodeInfo(msg.from).ip)}]
    /\ hist_ret' = <<>>
    /\ mgr_op' = MgrOp("discovery", msg.to, FALSE, NoEntry, {}, msg.from)
    /\ UNCHANGED << history, files, loop_tasks, server_clients >>
    /\ UNCHANGED << tvars, cvars, bc, lc, snd, subscribers, stop_call, hb_peer, hvars >>

discover_devicesAny == \E n \in Nodes : discover_devices(n)
PeriodicAnnounceAny == \E n \in Nodes : PeriodicAnnounce(n)
DiscoveryReceiveAny == \E msg \in disc_net : DiscoveryReceive(msg)

NextDiscovery ==
    \/ discover_devicesAny
    \/ PeriodicAnnounceAny
    \/ DiscoveryReceiveAny
    \/ SyncGetHistoryAny

SpecDiscovery == InitHistory /\ [][NextDiscovery]_vars

\* ------------------------------------------------------------------ C29
\* C29: with the persistent transport a peer B that receives the request
\* node A sent with discover_devices() sends its own announcement in reply,
\* so that A learns of B without waiting for B's periodic announce.
C29_DiscoveryAnswered ==
    [][\A msg \in disc_net :
          msg.asked /\ msg.from # msg.to /\ DiscoveryReceive(msg) =>
             \E reply \in disc_net' : reply.from = msg.to /\ reply.to = msg.from]_vars


\* ------------------------------------------------ get_connected_devices()
\* DeviceDiscovery.discovered_devices of node n: each discovered id with the
\* DeviceInfo _handle_discovery_message built for it.
DiscoveredDevices(n) ==
    [ id \in discovered[n] |->
        LET m == CHOOSE m \in Nodes : DeviceIdOf(NodeInfo(m).name, NodeInfo(m).ip) = id
        IN  DeviceInfo(NodeInfo(m).name, NodeInfo(m).ip, 0, "WebSocket") ]

\* WebSocketClipboardNetwork.get_connected_devices(): a dict that starts as a
\* copy of _connected_devices and takes every discovered device under its
\* name@ip; the list returned is the dict's values, one per key.
WS_get_connected_devices(n) ==
    LET found == DiscoveredDevices(n)
    IN  [ id \in DOMAIN connected_devices \cup DOMAIN found |->
            IF id \in DOMAIN found THEN found[id] ELSE connected_devices[id] ]

\* The snapshot of the node's transport, one entry per position of the list.
get_connected_devices ==
    IF impl = "udp" THEN connected_devices ELSE WS_get_connected_devices("A")

\* A device_info frame whose data.device_info names another device than its
\* sender fields: peer C passes on what it knows about B.
RelayedDeviceInfo(ep, about) ==
    _serialize_packet(NetworkPacket("device_info", ep.peer.name, ep.peer.ip, 2,
                                    DeviceInfoFull(about)))

WS_MessageDeviceInfoAny ==
    \E ep \in Endpoints : \E about \in Peers :
        WS_Message(ep, RelayedDeviceInfo(ep, about), FALSE)

DiscoveryReceiveAt(n) == \E msg \in disc_net : msg.to = n /\ DiscoveryReceive(msg)

NextDevices ==
    \/ UDP_ReceivePresence
    \/ UDP_CleanupSample
    \/ UDP_CleanupSweep
    \/ Tick
    \/ set_device_callback
    \/ WS_AcceptAny
    \/ WS_MessageDeviceInfoAny
    \/ WS_CloseAny
    \/ PeriodicAnnounce("B")
    \/ DiscoveryReceiveAt("A")

SpecDevices == Init /\ [][NextDevices]_vars

\* ------------------------------------------------------------------ C30
\* C30: the list get_connected_devices() returns, for the UDP and for the
\* WebSocket transport (which merges connection-registered and discovered
\* devices), never holds two devices with the same name@ip, for any sequence
\* of presence, device_info and discovery messages.
C30_DeviceIdsUnique ==
    LET devices == get_connected_devices
    IN  \A i, j \in DOMAIN devices :
           i # j => DeviceIdOf(devices[i].name, devices[i].ip_address)
                    # DeviceIdOf(devices[j].name, devices[j].ip_address)


\* ---------------------------------- _handle_client and the broadcast task
\* How many frames of a connection the model keeps in ws_conn.wire.
MaxFrames == 3

\* A frame of packet type t is written on the latest connection of client c;
\* the model keeps the first MaxFrames frames of a connection.
Written(conn, c, t) ==
    IF Len(conn.wire[c]) < MaxFrames
    THEN [conn EXCEPT !.wire = Put(@, c, Append(@[c], t))]
    ELSE conn

\* A handler that is suspended between entering the connection in
\* self.clients and writing device_info.
HandleClientEnterYielding(conn, c) ==
    [wire |-> Put(conn.wire, c, <<>>), listening |-> conn.listening \ {c}]

\* _handle_client from its first statement to its first suspension:
\* `self.clients[client_id] = websocket` and then, with no await in between,
\* the call of websocket.send(device_info), which writes the frame of an open
\* connection before the coroutine is suspended.
HandleClientEnter(conn, c) ==
    [wire |-> Put(conn.wire, c, << "device_info" >>),
     listening |-> conn.listening \ {c}]

HandleClientStart(ep) ==
    /\ impl = "ws"
    /\ ClientId(ep) \notin clients
    /\ clients' = clients \cup {ClientId(ep)}
    /\ conn_devices' = Put(conn_devices, ClientId(ep), {})
    /\ ws_conn' = HandleClientEnter(ws_conn, ClientId(ep))
    /\ dev_events' = EmptyBag
    /\ clip_events' = <<>>
    /\ sent' = << DeviceInfoPacket(now) >>
    /\ last_op' = Op("accept", ClientId(ep), TRUE, FALSE)
    /\ UNCHANGED << impl, bc_closed, connected_devices, device_callback, processed,
                    processed_anon, now, cleanup_pc, current_time, delivered,
                    evicted, evictions, dropped >>
    /\ UNCHANGED << mvars, cvars, bc, lc, snd, evars, bind_log, dev_lock, ev_hist, socks, simple >>

\* `await websocket.send(...)` returns and the handler reaches its
\* `async for message in websocket`.
HandleClientSent(ep) ==
    /\ impl = "ws"
    /\ ClientId(ep) \in clients
    /\ ClientId(ep) \notin ws_conn.listening
    /\ ws_conn' = [ws_conn EXCEPT !.listening = @ \cup {ClientId(ep)}]
    /\ Output(<<>>, Op("listening", ClientId(ep), TRUE, FALSE))
    /\ UNCHANGED << bc, lc, snd, evars, bind_log, dev_lock, ev_hist, socks, simple >>

\* The connection closes, in the send or in the receive loop: the finally
\* clause of _handle_client.
HandleClientClose(ep) ==
    /\ impl = "ws"
    /\ ClientId(ep) \in clients
    /\ clients' = clients \ {ClientId(ep)}
    /\ conn_devices' = Without(conn_devices, {ClientId(ep)})
    /\ bc_closed' = IF bc.pc = "send" THEN bc_closed \cup {ClientId(ep)} ELSE bc_closed
    /\ ws_conn' = [ws_conn EXCEPT !.listening = @ \ {ClientId(ep)}]
    /\ CommitState(WS_on_disconnect(State, ClientId(ep)), NoKey, FALSE,
                   Op("close", ClientId(ep), TRUE, FALSE))
    /\ UNCHANGED << impl, device_callback, now, cleanup_pc, current_time >>
    /\ UNCHANGED << mvars, cvars, bc, lc, snd, evars, bind_log, dev_lock, ev_hist, socks, simple >>

\* The steps of the broadcast task with the frame each send call writes.
BroadcastStartWire ==
    /\ BroadcastStartState
    /\ ws_conn' = IF bc'.pc = "send"
                  THEN Written(ws_conn, bc'.cur, "clipboard_data") ELSE ws_conn
    /\ UNCHANGED << mvars, cvars, lc, snd, evars, bind_log, dev_lock, ev_hist, socks, simple >>

BroadcastResumeWire(ok) ==
    /\ BroadcastResumeState(ok)
    /\ ws_conn' = IF bc'.pc = "send"
                  THEN Written(ws_conn, bc'.cur, "clipboard_data") ELSE ws_conn
    /\ UNCHANGED << mvars, cvars, lc, snd, evars, bind_log, dev_lock, ev_hist, socks, simple >>

HandleClientStartAny == \E ep \in Endpoints : HandleClientStart(ep)
HandleClientSentAny == \E ep \in Endpoints : HandleClientSent(ep)
HandleClientCloseAny == \E ep \in Endpoints : HandleClientClose(ep)
BroadcastResumeWireAny == \E ok \in BOOLEAN : BroadcastResumeWire(ok)

\* The WebSocket server accepting and losing connections while broadcast
\* tasks run.
NextAccept ==
    \/ HandleClientStartAny
    \/ HandleClientSentAny
    \/ HandleClientCloseAny
    \/ BroadcastStartWire
    \/ BroadcastResumeWireAny

SpecAccept == InitWS /\ [][NextAccept]_vars

\* C31: on every accepted connection the first frame written is the local
\* device_info; no clipboard_data frame of a broadcast task precedes it.
C31_DeviceInfoFirst ==
    \A c \in DOMAIN ws_conn.wire :
        ws_conn.wire[c] # <<>> => Head(ws_conn.wire[c]) = "device_info"

\* A broadcast task that was suspended when the connection was accepted has
\* later sent on it, after device_info.
C31_Witness ==
    \E c \in clients :
        /\ c \notin bc.start
        /\ c \in bc.visited
        /\ Len(ws_conn.wire[c]) >= 2
        /\ ws_conn.wire[c][1] = "device_info"
        /\ ws_conn.wire[c][2] = "clipboard_data"


\* ------------------------------- device events of the persistent transport
\* _on_discovery_event(event_type, device): the event goes to the device
\* callback as it came, if a callback is set.
_on_discovery_event(cb, event_type, device) ==
    IF cb THEN SetToBag({Event(event_type, device)}) ELSE EmptyBag

\* ClipboardManager._on_device_event for the events of one step: every
\* subscriber is called with each of them; event keeps the last one.
Delivered(subs, events) ==
    IF events = EmptyBag THEN {subs}
    ELSE LET r == _on_device_event(subs.callbacks, 1, <<>>)
         IN  { [subs EXCEPT !.event = ev, !.called = r.called,
                            !.escaped = r.escaped] : ev \in BagToSet(events) }

\* A frame arrives on a connection and the events of _handle_packet reach
\* the subscribers.
WS_MessageDelivered(ep) ==
    /\ impl = "ws"
    /\ ClientId(ep) \in clients
    /\ \E m \in BroadcastFrames[ep] : \E res \in WS_on_message(State, m, FALSE) :
          /\ CommitState(res, DatagramKey(m), FALSE,
                         Op("message", ClientId(ep), TRUE, res.dup))
          /\ conn_devices' = [conn_devices EXCEPT ![ClientId(ep)] = @ \cup res.upserted]
          /\ subscribers' \in Delivered(subscribers, res.dev_events)
    /\ UNCHANGED << impl, bc_closed, device_callback, now, cleanup_pc, current_time, clients >>
    /\ UNCHANGED << mvars, cvars, bc, lc, snd, stop_call, hb_peer, disc_net, hvars >>

\* _handle_discovery_message on the local node with the callback chain
\* _on_discovery_event -> ClipboardManager._on_device_event.
DiscoveryDelivered(msg) ==
    /\ impl = "ws"
    /\ msg \in disc_net
    /\ msg.to = "A"
    /\ disc_net' = disc_net \ {msg}
    /\ LET from == NodeInfo(msg.from)
           device_id == DeviceIdOf(from.name, from.ip)
           ignored == from.ip = LocalIp
           is_new == device_id \notin discovered["A"]
           events == IF ~ignored /\ is_new
                     THEN _on_discovery_event(device_callback, "device_discovered",
                                              DeviceInfo(from.name, from.ip, now, "WebSocket"))
                     ELSE EmptyBag
       IN  /\ discovered' = [discovered EXCEPT !["A"] =
                                IF ignored THEN @ ELSE @ \cup {device_id}]
           /\ dev_events' = events
           /\ subscribers' \in Delivered(subscribers, events)
    /\ clip_events' = <<>>
    /\ sent' = <<>>
    /\ last_op' = Op("discovery", msg.from, TRUE, FALSE)
    /\ hist_ret' = <<>>
    /\ mgr_op' = MgrOp("discovery", "A", FALSE, NoEntry, {}, msg.from)
    /\ UNCHANGED << impl, bc_closed, connected_devices, device_callback, processed,
                    processed_anon, now, cleanup_pc, current_time, clients,
                    conn_devices, delivered, evicted, evictions, dropped >>
    /\ UNCHANGED << history, files, loop_tasks, server_clients >>
    /\ UNCHANGED << cvars, bc, lc, snd, stop_call, hb_peer, hvars >>

\* WebSocketDeviceDiscovery._cleanup_devices for a device whose last
\* announcement is older than device_timeout: it leaves discovered_devices
\* and 'device_timed_out' goes to the callback.  The model keeps no last_seen
\* of discovered devices: any of them may be that old.
DiscoveryTimedOut(id) ==
    /\ impl = "ws"
    /\ id \in discovered["A"]
    /\ discovered' = [discovered EXCEPT !["A"] = @ \ {id}]
    /\ LET events == _on_discovery_event(device_callback, "device_timed_out",
                                         DiscoveredDevices("A")[id])
       IN  /\ dev_events' = events
           /\ subscribers' \in Delivered(subscribers, events)
    /\ clip_events' = <<>>
    /\ sent' = <<>>
    /\ last_op' = Op("discovery_cleanup", id, TRUE, FALSE)
    /\ hist_ret' = <<>>
    /\ mgr_op' = MgrOp("discovery_cleanup", "A", FALSE, NoEntry, {}, "")
    /\ UNCHANGED << impl, bc_closed, connected_devices, device_callback, processed,
                    processed_anon, now, cleanup_pc, current_time, clients,
                    conn_devices, delivered, evicted, evictions, dropped >>
    /\ UNCHANGED << history, files, loop_tasks, server_clients >>
    /\ UNCHANGED << cvars, bc, lc, snd, stop_call, hb_peer, disc_net, hvars >>

WS_MessageDeliveredAny == \E ep \in Endpoints : WS_MessageDelivered(ep)
DiscoveryDeliveredAny == \E msg \in disc_net : DiscoveryDelivered(msg)
DiscoveryTimedOutAny == \E id \in discovered["A"] : DiscoveryTimedOut(id)

\* The manager's node with its subscribers, its connections and its
\* discovery side-channel.
NextDeviceKinds ==
    \/ set_device_callback
    \/ add_device_callback("ok")
    \/ WS_AcceptAny
    \/ WS_MessageDeliveredAny
    \/ WS_CloseAny
    \/ PeriodicAnnounceAny
    \/ DiscoveryDeliveredAny
    \/ DiscoveryTimedOutAny

SpecDeviceKinds == InitWS /\ [][NextDeviceKinds]_vars

\* C32: every device event delivered to a subscriber registered with
\* add_device_callback is of kind 'device_joined' or 'device_left', whether
\* it comes from a connection or from the discovery side-channel.
C32_OnlyJoinedOrLeft ==
    (subscribers.callbacks # <<>> /\ subscribers.event # <<>>)
        => subscribers.event[1] \in {"device_joined", "device_left"}


\* ------------------------------------------ the bind loop of _listen_loop
\* One bind() call with the port it was made on; the first call of a bind
\* loop (attempt 0) begins the list anew.
BindAttemptLogged(outcome) ==
    /\ BindAttemptState(outcome)
    /\ bind_log' = [ports |-> IF lc.attempts = 0 THEN << lc.port >>
                              ELSE Append(bind_log.ports, lc.port),
                    last |-> outcome]
    /\ UNCHANGED << bc, snd, evars, ws_conn, dev_lock, ev_hist, socks, simple >>

\* get_bound_port(): self.port.
get_bound_port == lc.port

\* The ports initial_port, initial_port + 1, ... of n attempts.
PortsFrom(initial_port, n) == [i \in 1..n |-> initial_port + i - 1]

BindAttemptLoggedAny ==
    \E outcome \in {"ok", "in_use", "error"} : BindAttemptLogged(outcome)

\* The UDP node is started, binds, is stopped and started again; every bind
\* call may succeed, find the port in use or fail otherwise.
NextBind ==
    \/ start_listening
    \/ BindAttemptLoggedAny
    \/ ListenExit
    \/ HeartbeatStep
    \/ CleanupExit
    \/ stop_listening

SpecBind == InitStart /\ [][NextBind]_vars

_handle_discovery_message(found, addr, name, ip, t) ==
    IF addr = LocalIp
    THEN [found |-> found, events |-> {}]
    ELSE LET device_id == DeviceIdOf(name, ip)
         IN  [found |-> found \cup {device_id},
              events |-> IF device_id \notin found
                         THEN {Event("device_discovered",
                                     DeviceInfo(name, ip, t, "WebSocket"))}
                         ELSE {}]

\* The announcements that reach the local discovery socket: of peer B, of the
\* local instance itself, of the local instance seen on a second interface
\* of the host, and of a second instance on the local host that has another
\* device name.
SecondInterfaceIp == "10.0.1.1"
TwinName == "A2"
DiscoverySenders ==
    { [addr |-> PeerB.ip, name |-> PeerB.name, ip |-> PeerB.ip],
      [addr |-> LocalIp, name |-> LocalName, ip |-> LocalIp],
      [addr |-> SecondInterfaceIp, name |-> LocalName, ip |-> LocalIp],
      [addr |-> LocalIp, name |-> TwinName, ip |-> LocalIp] }

\* The discovery thread of the local node receives one announcement.
DiscoveryDatagram(src) ==
    /\ impl = "ws"
    /\ LET r == _handle_discovery_message(discovered["A"], src.addr, src.name,
                                          src.ip, now)
           events == IF r.events = {} \/ ~device_callback THEN EmptyBag
                     ELSE SetToBag(r.events)
       IN  /\ discovered' = [discovered EXCEPT !["A"] = r.found]
           /\ dev_events' = events
           /\ subscribers' \in Delivered(subscribers, events)
    /\ clip_events' = <<>>
    /\ sent' = <<>>
    /\ last_op' = Op("discovery", src.addr, TRUE, FALSE)
    /\ hist_ret' = <<>>
    /\ mgr_op' = MgrOp("discovery", "A", FALSE, NoEntry, {}, src.name)
    /\ UNCHANGED << impl, bc_closed, connected_devices, device_callback, processed,
                    processed_anon, now, cleanup_pc, current_time, clients,
                    conn_devices, delivered, evicted, evictions, dropped >>
    /\ UNCHANGED << history, files, loop_tasks, server_clients >>
    /\ UNCHANGED << cvars, bc, lc, snd, stop_call, hb_peer, disc_net, hvars >>

DiscoveryDatagramAny == \E src \in DiscoverySenders : DiscoveryDatagram(src)

NextSelfFilter ==
    \/ set_device_callback
    \/ add_device_callback("ok")
    \/ DiscoveryDatagramAny
    \/ DiscoveryTimedOutAny
    \/ Tick

SpecSelfFilter == InitWS /\ [][NextSelfFilter]_vars

\* C34: the discovery ignores an announcement exactly when it comes from the
\* local device (local name and local ip); an announcement of a device with
\* another name is registered, and reported when new, also when its source
\* address is the local ip.
C34_OnlySelfIgnored ==
    [][\A src \in DiscoverySenders :
          DiscoveryDatagram(src) =>
             IF src.name = LocalName /\ src.ip = LocalIp
             THEN discovered' = discovered /\ dev_events' = EmptyBag
             ELSE /\ DeviceIdOf(src.name, src.ip) \in discovered'["A"]
                  /\ (DeviceIdOf(src.name, src.ip) \notin discovered["A"]
                        /\ device_callback)
                       => dev_events' # EmptyBag]_vars


\* ------------------------------------ the registry lock and the callback
LockThreads == {"receive", "cleanup"}

\* A handler that took the lock has done its work on the registry: with no
\* event it leaves the `with self._device_lock` block; with events it is
\* inside self._device_callback, which the code calls within the block.
Held(lock, thread, events) ==
    IF events = EmptyBag THEN lock
    ELSE [holder |-> thread, pc |-> [lock.pc EXCEPT ![thread] = "callback"]]

\* The listen thread handles a presence packet: _update_device.
UDP_ReceiveLocked ==
    /\ impl = "udp"
    /\ dev_lock.holder = ""
    /\ dev_lock.pc["receive"] = "idle"
    /\ \E p \in PresencePackets :
         \E res \in _listen_loop(State, _serialize_packet(p), FALSE) :
            /\ CommitState(res, DatagramKey(_serialize_packet(p)), FALSE,
                           Op("receive", "", TRUE, res.dup))
            /\ dev_lock' = Held(dev_lock, "receive", res.dev_events)
    /\ UNCHANGED << impl, bc_closed, device_callback, now, cleanup_pc, current_time,
                    clients, conn_devices >>
    /\ UNCHANGED << mvars, cvars, bc, lc, snd, evars, ws_conn, bind_log, ev_hist, socks, simple >>

\* The cleanup thread reads the clock for its next pass.
UDP_CleanupSampleLocked ==
    /\ dev_lock.pc["cleanup"] = "idle"
    /\ UDP_CleanupSample

\* The cleanup thread takes the lock and removes the inactive devices.
UDP_CleanupSweepLocked ==
    /\ impl = "udp"
    /\ cleanup_pc = "sweep"
    /\ dev_lock.holder = ""
    /\ cleanup_pc' = "sleep"
    /\ current_time' = 0
    /\ LET res == _cleanup_devices(State, current_time)
       IN  /\ CommitState(res, NoKey, FALSE, Op("cleanup_sweep", "", TRUE, FALSE))
           /\ dev_lock' = Held(dev_lock, "cleanup", res.dev_events)
    /\ UNCHANGED << impl, bc_closed, device_callback, now, clients, conn_devices >>
    /\ UNCHANGED << mvars, cvars, bc, lc, snd, evars, ws_conn, bind_log, ev_hist, socks, simple >>

\* The event loop handles a device_info frame: _handle_packet.
WS_MessageLocked(ep) ==
    /\ impl = "ws"
    /\ ClientId(ep) \in clients
    /\ dev_lock.holder = ""
    /\ dev_lock.pc["receive"] = "idle"
    /\ \E m \in BroadcastFrames[ep] : \E res \in WS_on_message(State, m, FALSE) :
          /\ CommitState(res, DatagramKey(m), FALSE,
                         Op("message", ClientId(ep), TRUE, res.dup))
          /\ conn_devices' = [conn_devices EXCEPT ![ClientId(ep)] = @ \cup res.upserted]
          /\ dev_lock' = Held(dev_lock, "receive", res.dev_events)
    /\ UNCHANGED << impl, bc_closed, device_callback, now, cleanup_pc, current_time, clients >>
    /\ UNCHANGED << mvars, cvars, bc, lc, snd, evars, ws_conn, bind_log, ev_hist, socks, simple >>

\* The subscriber returns and its caller leaves the with block.
CallbackReturn(thread) ==
    /\ dev_lock.pc[thread] = "callback"
    /\ dev_lock' = [holder |-> IF dev_lock.holder = thread THEN "" ELSE dev_lock.holder,
                    pc |-> [dev_lock.pc EXCEPT ![thread] = "idle"]]
    /\ Output(<<>>, Op("callback_return", thread, TRUE, FALSE))
    /\ UNCHANGED << bc, lc, snd, evars, ws_conn, bind_log, ev_hist, socks, simple >>

\* The subscriber calls get_connected_devices() from inside the callback:
\* `with self._device_lock` on a threading.Lock.  A held Lock is not
\* re-entrant, so the acquire of the thread that holds it never returns.
CallbackGetConnectedDevices(thread) ==
    /\ dev_lock.pc[thread] = "callback"
    /\ dev_lock' = IF dev_lock.holder = "" THEN dev_lock
                   ELSE [dev_lock EXCEPT !.pc[thread] = "blocked"]
    /\ Output(<<>>, Op("get_connected_devices", thread, dev_lock.holder = "", FALSE))
    /\ UNCHANGED << bc, lc, snd, evars, ws_conn, bind_log, ev_hist, socks, simple >>

WS_MessageLockedAny == \E ep \in Endpoints : WS_MessageLocked(ep)
CallbackReturnAny == \E thread \in LockThreads : CallbackReturn(thread)
CallbackGetConnectedDevicesAny ==
    \E thread \in LockThreads : CallbackGetConnectedDevices(thread)

\* Either transport with a subscriber that may call back into it.
NextLock ==
    \/ set_device_callback
    \/ UDP_ReceiveLocked
    \/ UDP_CleanupSampleLocked
    \/ UDP_CleanupSweepLocked
    \/ Tick
    \/ WS_AcceptAny
    \/ WS_MessageLockedAny
    \/ CallbackReturnAny
    \/ CallbackGetConnectedDevicesAny

SpecLock == Init /\ [][NextLock]_vars

\* C35: the registry lock is not held while the device callback runs, in
\* either transport, so a subscriber that calls get_connected_devices() from
\* inside the callback does not deadlock and a slow one blocks neither the
\* receive path nor the cleanup loop.
C35_CallbackOutsideLock ==
    \A thread \in LockThreads :
        /\ dev_lock.pc[thread] = "callback" => dev_lock.holder = ""
        /\ dev_lock.pc[thread] # "blocked"


\* ----------------------------------------- start-up of the device events
\* ClipboardManager.__init__ (and the tests): network.start_listening(...)
\* has returned when network.set_device_callback(...) is called.
SetCallbackAfterStart ==
    /\ lc.starts > 0
    /\ set_device_callback

\* The UDP node from its construction to the registration of its subscriber
\* and beyond: the threads run as soon as start_listening() has started them.
NextStartup ==
    \/ start_listening
    \/ BindAttemptAny
    \/ ListenReceive
    \/ SetCallbackAfterStart
    \/ CleanupStep
    \/ Tick

SpecStartup == InitStart /\ [][NextStartup]_vars

\* C36: a device enters the registry only together with a 'device_joined'
\* event handed to the device subscriber, so every device that
\* get_connected_devices() returns has had its join event delivered, also
\* when it arrived between start_listening() and set_device_callback().
C36_JoinDelivered ==
    [][\A id \in DOMAIN connected_devices' \ DOMAIN connected_devices :
          \E ev \in BagToSet(dev_events') :
             /\ ev[1] = "device_joined"
             /\ DeviceIdOf(ev[2].name, ev[2].ip_address) = id]_vars


\* --------------------------------------- the order of the device events
\* The id of the device an event is about.
EventId(ev) == DeviceIdOf(ev[2].name, ev[2].ip_address)

\* The history after self._device_callback was called with the events of one
\* step (the calls are made inside `with self._device_lock`, so they happen
\* in the order of the registry changes).
Recorded(h, events) ==
    LET evs == BagToSet(events)
        ids == { EventId(ev) : ev \in evs }
        of(id) == CHOOSE ev \in evs : EventId(ev) = id
    IN  [last |-> [id \in DOMAIN h.last \cup ids |->
                      IF id \in ids THEN of(id)[1] ELSE h.last[id]],
         count |-> [id \in DOMAIN h.count \cup ids |->
                      IF id \in ids
                      THEN Min(MaxEventCount,
                               1 + (IF id \in DOMAIN h.count THEN h.count[id] ELSE 0))
                      ELSE h.count[id]],
         alternates |->
             /\ h.alternates
             /\ \A ev \in evs :
                   /\ CopiesIn(ev, events) = 1
                   /\ \A other \in evs : EventId(other) = EventId(ev) => other = ev
                   /\ IF EventId(ev) \in DOMAIN h.last
                      THEN ev[1] # h.last[EventId(ev)]
                      ELSE ev[1] = "device_joined"]

\* The receive thread handles a presence packet of a node whose device
\* callback is set.
UDP_ReceiveRecorded ==
    /\ impl = "udp"
    /\ device_callback
    /\ \E p \in PresencePackets :
         \E res \in _listen_loop(State, _serialize_packet(p), FALSE) :
            /\ CommitState(res, DatagramKey(_serialize_packet(p)), FALSE,
                           Op("receive", "", TRUE, res.dup))
            /\ ev_hist' = Recorded(ev_hist, res.dev_events)
    /\ UNCHANGED << impl, bc_closed, device_callback, now, cleanup_pc, current_time,
                    clients, conn_devices >>
    /\ UNCHANGED << mvars, cvars, bc, lc, snd, evars, ws_conn, bind_log, dev_lock, socks, simple >>

\* The cleanup thread samples the clock, and later takes the lock and sweeps.
UDP_CleanupSampleRecorded ==
    /\ device_callback
    /\ UDP_CleanupSample

UDP_CleanupSweepRecorded ==
    /\ impl = "udp"
    /\ cleanup_pc = "sweep"
    /\ cleanup_pc' = "sleep"
    /\ current_time' = 0
    /\ LET res == _cleanup_devices(State, current_time)
       IN  /\ CommitState(res, NoKey, FALSE, Op("cleanup_sweep", "", TRUE, FALSE))
           /\ ev_hist' = Recorded(ev_hist, res.dev_events)
    /\ UNCHANGED << impl, bc_closed, device_callback, now, clients, conn_devices >>
    /\ UNCHANGED << mvars, cvars, bc, lc, snd, evars, ws_conn, bind_log, dev_lock, socks, simple >>

\* The UDP node whose device callback is set before its threads handle
\* anything; then the receive thread, the cleanup thread and the clock
\* interleave freely.
NextAlternate ==
    \/ set_device_callback
    \/ UDP_ReceiveRecorded
    \/ UDP_CleanupSampleRecorded
    \/ UDP_CleanupSweepRecorded
    \/ device_callback /\ Tick

SpecAlternate == InitUDP /\ [][NextAlternate]_vars

\* C37: with the device callback set from the start, the events delivered
\* for a device id alternate 'device_joined', 'device_left', ..., beginning
\* with 'device_joined', under every interleaving of the receive and the
\* cleanup thread, and the id is in the registry exactly when its last event
\* was 'device_joined'.
C37_EventsAlternate ==
    /\ ev_hist.alternates
    /\ \A id \in DOMAIN connected_devices \cup DOMAIN ev_hist.last :
          id \in DOMAIN connected_devices
             <=> (id \in DOMAIN ev_hist.last /\ ev_hist.last[id] = "device_joined")

\* A device joined, left and joined again, the second join handled while the
\* cleanup thread was between its clock sample and its sweep.
C37_Witness ==
    \E id \in DOMAIN connected_devices :
        /\ ev_hist.count[id] >= 3
        /\ ev_hist.last[id] = "device_joined"
        /\ cleanup_pc = "sweep"
        /\ last_op.op = "receive"
        /\ dev_events # EmptyBag


\* ------------------------------------------- the sockets of the UDP node
\* socket.close() on whatever the attribute refers to.
Closed(sock) == IF sock = "none" THEN "none" ELSE "closed"

\* `if not self._broadcast_socket: self._broadcast_socket = socket.socket(...)`
\* at the top of _broadcast_packet: a closed socket object is still true.
BroadcastSocket(sock) == IF sock = "none" THEN "open" ELSE sock

\* start_listening(): the threads are started and, after the sleep, the
\* calling thread broadcasts its announce and its discovery request.
StartSockets ==
    /\ start_listeningState
    /\ socks' = IF lc.listening THEN socks
                ELSE [socks EXCEPT !.broadcast = BroadcastSocket(@), !.hb_pc = "check"]
    /\ UNCHANGED << bc, snd, evars, ws_conn, bind_log, dev_lock, ev_hist, simple >>

\* The listen thread creates self._socket before its first bind() call; when
\* the bind loop ends in an exception the finally clause of _listen_loop
\* closes both sockets.
BindSockets(outcome) ==
    /\ BindAttemptState(outcome)
    /\ socks' = IF lc'.listen = "failed"
                THEN [socks EXCEPT !.listen = "closed", !.broadcast = Closed(@)]
                ELSE [socks EXCEPT !.listen = "open"]
    /\ UNCHANGED << bc, snd, evars, ws_conn, bind_log, dev_lock, ev_hist, simple >>

\* The receive loop ends; finally: `if self._socket: self._socket.close()` and
\* `if self._broadcast_socket: self._broadcast_socket.close()`.
ListenExitSockets ==
    /\ ListenExitState
    /\ socks' = [socks EXCEPT !.listen = Closed(@), !.broadcast = Closed(@)]
    /\ UNCHANGED << bc, snd, evars, ws_conn, bind_log, dev_lock, ev_hist, simple >>

\* stop_listening(): _listening = False, both sockets are closed and the
\* attributes set to None.
StopSockets ==
    /\ stop_listeningState
    /\ socks' = [socks EXCEPT !.listen = "none", !.broadcast = "none"]
    /\ UNCHANGED << bc, snd, evars, ws_conn, bind_log, dev_lock, ev_hist, simple >>

\* _send_heartbeat tests `while self._listening`.
HeartbeatCheck ==
    /\ impl = "udp"
    /\ lc.hb = "running"
    /\ socks.hb_pc = "check"
    /\ IF lc.listening
       THEN /\ socks' = [socks EXCEPT !.hb_pc = "send"]
            /\ UNCHANGED lc
       ELSE /\ lc' = [lc EXCEPT !.hb = "exited"]
            /\ UNCHANGED socks
    /\ Output(<<>>, Op("heartbeat_check", "", lc.listening, FALSE))
    /\ UNCHANGED << bc, snd, evars, ws_conn, bind_log, dev_lock, ev_hist, simple >>

\* ... builds the packet and calls _broadcast_packet, which creates the
\* broadcast socket if the attribute is None and sends; the sendto calls on a
\* closed socket fail and are passed over.
HeartbeatBroadcast ==
    /\ impl = "udp"
    /\ lc.hb = "running"
    /\ socks.hb_pc = "send"
    /\ socks' = [socks EXCEPT !.broadcast = BroadcastSocket(@), !.hb_pc = "sleep"]
    /\ UNCHANGED lc
    /\ Output(IF BroadcastSocket(socks.broadcast) = "open"
              THEN << Heartbeat(Local, now) >> ELSE <<>>,
              Op("heartbeat", "", lc.listening, FALSE))
    /\ UNCHANGED << bc, snd, evars, ws_conn, bind_log, dev_lock, ev_hist, simple >>

\* ... and sleeps ten seconds.
HeartbeatWake ==
    /\ impl = "udp"
    /\ lc.hb = "running"
    /\ socks.hb_pc = "sleep"
    /\ socks' = [socks EXCEPT !.hb_pc = "check"]
    /\ UNCHANGED lc
    /\ Output(<<>>, Op("heartbeat_wake", "", TRUE, FALSE))
    /\ UNCHANGED << bc, snd, evars, ws_conn, bind_log, dev_lock, ev_hist, simple >>

BindSocketsAny == \E outcome \in {"ok", "in_use", "error"} : BindSockets(outcome)

\* The UDP node with its sockets: started, bound, stopped and started again
\* while its three threads take their steps.
NextSockets ==
    \/ StartSockets
    \/ BindSocketsAny
    \/ ListenExitSockets
    \/ HeartbeatCheck
    \/ HeartbeatBroadcast
    \/ HeartbeatWake
    \/ CleanupExit
    \/ StopSockets

SpecSockets == InitStart /\ [][NextSockets]_vars

\* C38: once stop_listening() has been called and the three loops have
\* ended, no socket of the instance is open: a heartbeat that races with the
\* stop does not re-create the broadcast socket and leave it open.
C38_NoSocketAfterStop ==
    (/\ lc.starts > 0
     /\ ~lc.listening
     /\ ~Alive(lc.listen) /\ ~Alive(lc.hb) /\ ~Alive(lc.cleanup))
        => (socks.listen # "open" /\ socks.broadcast # "open")


\* -------------------------------------------------- SimpleWebSocketNetwork
\* set_device_callback(callback)
Simple_set_device_callback ==
    /\ ~simple.device_callback
    /\ simple' = [simple EXCEPT !.device_callback = TRUE, !.events = <<>>]
    /\ Output(<<>>, Op("simple_set_device_callback", "", TRUE, FALSE))
    /\ UNCHANGED << bc, lc, snd, evars, ws_conn, bind_log, dev_lock, ev_hist, socks >>

\* _handle_client from the accept to its receive loop: the connection is
\* entered in self.clients and device_info is sent; when the send returns
\* (ok) the DeviceInfo of the local device is stored in connected_devices
\* under device_name@device_ip and the callback is called with it; when the
\* send raises, the finally clause removes the connection.
Simple_handle_client(s, client_id, t, ok) ==
    LET device_info == DeviceInfo(LocalName, LocalIp, t, LocalPlatform)
        device_id == DeviceIdOf(LocalName, LocalIp)
    IN  IF ok
        THEN [s EXCEPT !.clients = @ \cup {client_id},
                       !.connected_devices = Put(@, device_id, device_info),
                       !.events = IF s.device_callback
                                  THEN << Event("device_joined", device_info) >>
                                  ELSE <<>>]
        ELSE [s EXCEPT !.events = <<>>]

\* _handle_packet(packet): a packet with the local name and ip is ignored; a
\* device_info packet registers its device, and reports it, if its id is not
\* in connected_devices.
Simple_handle_packet(s, packet) ==
    IF packet.sender_name = LocalName /\ packet.sender_ip = LocalIp
    THEN [s EXCEPT !.events = <<>>]
    ELSE IF packet.packet_type = "device_info"
    THEN LET device_data == packet.data.v
             device_info == DeviceInfo(Get(device_data, "device_name", packet.sender_name),
                                       packet.sender_ip, packet.timestamp,
                                       Get(device_data, "platform", "Unknown"))
             device_id == DeviceIdOf(device_info.name, device_info.ip_address)
         IN  IF device_id \notin DOMAIN s.connected_devices
             THEN [s EXCEPT !.connected_devices = Put(@, device_id, device_info),
                            !.events = IF s.device_callback
                                       THEN << Event("device_joined", device_info) >>
                                       ELSE <<>>]
             ELSE [s EXCEPT !.events = <<>>]
    ELSE [s EXCEPT !.events = <<>>]

\* The device_info packets a connected peer sends, with and without the
\* device_name member, and the local node's own packet coming back.
SimplePackets(ep) ==
    { NetworkPacket("device_info", ep.peer.name, ep.peer.ip, t,
                    PyDict([platform |-> "Linux", device_name |-> ep.peer.name])) :
        t \in PacketStamps }
    \cup { NetworkPacket("device_info", ep.peer.name, ep.peer.ip, 0,
                         PyDict([platform |-> "Linux"])),
           NetworkPacket("device_info", LocalName, LocalIp, 0,
                         PyDict([platform |-> LocalPlatform,
                                 device_name |-> LocalName])) }

SimpleAccept(ep, ok) ==
    /\ ClientId(ep) \notin simple.clients
    /\ simple' = Simple_handle_client(simple, ClientId(ep), now, ok)
    /\ Output(IF ok THEN << DeviceInfoPacket(now) >> ELSE <<>>,
              Op("simple_accept", ClientId(ep), ok, FALSE))
    /\ UNCHANGED << bc, lc, snd, evars, ws_conn, bind_log, dev_lock, ev_hist, socks >>

SimpleMessage(ep, packet) ==
    /\ ClientId(ep) \in simple.clients
    /\ simple' = Simple_handle_packet(simple, packet)
    /\ Output(<<>>, Op("simple_message", ClientId(ep), TRUE, FALSE))
    /\ UNCHANGED << bc, lc, snd, evars, ws_conn, bind_log, dev_lock, ev_hist, socks >>

\* The connection closes: the finally clause of _handle_client.
SimpleClose(ep) ==
    /\ ClientId(ep) \in simple.clients
    /\ simple' = [simple EXCEPT !.clients = @ \ {ClientId(ep)}, !.events = <<>>]
    /\ Output(<<>>, Op("simple_close", ClientId(ep), TRUE, FALSE))
    /\ UNCHANGED << bc, lc, snd, evars, ws_conn, bind_log, dev_lock, ev_hist, socks >>

SimpleAcceptAny == \E ep \in Endpoints : \E ok \in BOOLEAN : SimpleAccept(ep, ok)
SimpleMessageAny ==
    \E ep \in Endpoints : \E packet \in SimplePackets(ep) : SimpleMessage(ep, packet)
SimpleCloseAny == \E ep \in Endpoints : SimpleClose(ep)

NextSimple ==
    \/ Simple_set_device_callback
    \/ SimpleAcceptAny
    \/ SimpleMessageAny
    \/ SimpleCloseAny
    \/ Tick

SpecSimple == InitWS /\ [][NextSimple]_vars

\* C39: SimpleWebSocketNetwork delivers 'device_joined' only for remote
\* devices and only for an id that is not yet in connected_devices, and the
\* local device never enters connected_devices, however many connections are
\* accepted.
C39_JoinOncePerRemote ==
    /\ [](DeviceIdOf(LocalName, LocalIp) \notin DOMAIN simple.connected_devices)
    /\ [][\A i \in DOMAIN simple'.events :
             LET ev == simple'.events[i]
             IN  ev[1] = "device_joined" =>
                    /\ EventId(ev) # DeviceIdOf(LocalName, LocalIp)
                    /\ EventId(ev) \notin DOMAIN simple.connected_devices]_vars

=============================================================================
